---------------------------- MODULE Spec2Model ----------------------------
(***************************************************************************)
(* Nemesis copyright scanner (internal/scanner/scanner.go).                *)
(*                                                                         *)
(* Go strings are modelled as TLA+ strings, one character per rune; the    *)
(* library functions of package strings / unicode / strconv that the       *)
(* scanner calls are written out below on that representation.             *)
(***************************************************************************)
EXTENDS Integers, Sequences, FiniteSets, TLC

(***************************************************************************)
(* Go standard library, as far as the scanner uses it.                     *)
(***************************************************************************)

\* s[i-1:i] of Go, 1-based.
At(s, i) == SubSeq(s, i, i)

Min(a, b) == IF a < b THEN a ELSE b

\* The least element of a non-empty set of numbers.
Least(S) == CHOOSE i \in S : \A j \in S : i <= j

\* unicode.IsSpace on the characters that occur in the inputs.
WhiteSpace == {" ", "\t", "\n", "\r", "\f"}

UpperLetters == "ABCDEFGHIJKLMNOPQRSTUVWXYZ"

LowerLetters == "abcdefghijklmnopqrstuvwxyz"

Digits == {"0", "1", "2", "3", "4", "5", "6", "7", "8", "9"}

UpperRunes == {At(UpperLetters, i) : i \in 1..Len(UpperLetters)}

LowerOf ==
    [c \in UpperRunes |->
        At(LowerLetters, CHOOSE i \in 1..Len(UpperLetters) : At(UpperLetters, i) = c)]

\* unicode.ToLower of one rune.
LowerRune(c) == IF c \in UpperRunes THEN LowerOf[c] ELSE c

\* unicode.IsPunct: category P of the ASCII range.
PunctRunes ==
    {"!", "\"", "#", "%", "&", "'", "(", ")", "*", ",", "-", ".", "/", ":",
     ";", "?", "@", "[", "\\", "]", "_", "{", "}"}

\* unicode.IsSymbol: category S of the ASCII range (the grave accent, which no
\* input here holds, left out) and the copyright sign.
SymbolRunes == {"$", "+", "<", "=", ">", "^", "|", "~", "©"}

IsPunct(c) == c \in PunctRunes

IsSymbol(c) == c \in SymbolRunes

RECURSIVE MapRunes(_, _, _, _)
\* strings.Map(f, s) on the runes lo..hi of s (the result is the concatenation
\* of the images, so the range is mapped half by half), for the two mappings
\* the scanner uses:
\*   kind "lower": f = unicode.ToLower            (strings.ToLower)
\*   kind "key":   f = the closure of normalizeForComparison
MapRunes(kind, s, lo, hi) ==
    IF lo > hi THEN ""
    ELSE IF lo = hi
    THEN IF kind = "key" /\ (IsPunct(At(s, lo)) \/ IsSymbol(At(s, lo))) THEN " "
         ELSE LowerRune(At(s, lo))
    ELSE MapRunes(kind, s, lo, (lo + hi) \div 2)
         \o MapRunes(kind, s, (lo + hi) \div 2 + 1, hi)

ToLower(s) == MapRunes("lower", s, 1, Len(s))

\* strings.Contains
Contains(s, sub) ==
    \E i \in 1..(Len(s) - Len(sub) + 1) : SubSeq(s, i, i + Len(sub) - 1) = sub

\* strings.HasSuffix
HasSuffix(s, suf) ==
    Len(s) >= Len(suf) /\ SubSeq(s, Len(s) - Len(suf) + 1, Len(s)) = suf

\* strings.TrimSpace
TrimSpace(s) ==
    LET ink == {i \in 1..Len(s) : At(s, i) \notin WhiteSpace}
    IN  IF ink = {} THEN ""
        ELSE SubSeq(s, Least(ink), CHOOSE i \in ink : \A j \in ink : i >= j)

\* strings.Index from position i on: where sub occurs at or after i.
Occurrences(s, sub, i) ==
    {j \in i..(Len(s) - Len(sub) + 1) : SubSeq(s, j, j + Len(sub) - 1) = sub}

RECURSIVE ReplaceFrom(_, _, _, _)
\* strings.ReplaceAll(s, old, new) from position i on: the leftmost
\* occurrence is replaced, and the search resumes behind it.
ReplaceFrom(s, old, new, i) ==
    IF Occurrences(s, old, i) = {} THEN SubSeq(s, i, Len(s))
    ELSE SubSeq(s, i, Least(Occurrences(s, old, i)) - 1) \o new
         \o ReplaceFrom(s, old, new, Least(Occurrences(s, old, i)) + Len(old))

ReplaceAll(s, old, new) == ReplaceFrom(s, old, new, 1)

RECURSIVE FieldsFrom(_, _)
\* strings.Fields(s) from position i on: the maximal runs of non-space
\* characters, in order. A field starts at the first non-space character
\* and ends before the next space (or with s).
FieldsFrom(s, i) ==
    LET starts == {j \in i..Len(s) : At(s, j) \notin WhiteSpace}
        spaces == {j \in (Least(starts) + 1)..Len(s) : At(s, j) \in WhiteSpace}
    IN  IF starts = {} THEN <<>>
        ELSE IF spaces = {} THEN <<SubSeq(s, Least(starts), Len(s))>>
        ELSE <<SubSeq(s, Least(starts), Least(spaces) - 1)>>
             \o FieldsFrom(s, Least(spaces) + 1)

Fields(s) == FieldsFrom(s, 1)

RECURSIVE Join(_, _)
\* strings.Join(elems, sep)
Join(elems, sep) ==
    IF Len(elems) = 0 THEN ""
    ELSE IF Len(elems) = 1 THEN elems[1]
    ELSE elems[1] \o sep \o Join(Tail(elems), sep)

RECURSIVE SplitFrom(_, _, _)
\* strings.Split(s, sep) from position i on, for a non-empty separator.
SplitFrom(s, sep, i) ==
    IF Occurrences(s, sep, i) = {} THEN <<SubSeq(s, i, Len(s))>>
    ELSE <<SubSeq(s, i, Least(Occurrences(s, sep, i)) - 1)>>
         \o SplitFrom(s, sep, Least(Occurrences(s, sep, i)) + Len(sep))

Split(s, sep) == SplitFrom(s, sep, 1)

DigitValue(c) == CHOOSE v \in 0..9 : At("0123456789", v + 1) = c

\* strconv.Atoi succeeds: an optional sign and then only decimal digits.
AtoiOk(f) ==
    LET body == IF Len(f) > 0 /\ At(f, 1) \in {"+", "-"} THEN Tail(f) ELSE f
    IN  Len(body) > 0 /\ \A i \in 1..Len(body) : At(body, i) \in Digits

RECURSIVE DecimalValue(_)
DecimalValue(body) ==
    IF Len(body) = 0 THEN 0
    ELSE 10 * DecimalValue(SubSeq(body, 1, Len(body) - 1))
         + DigitValue(At(body, Len(body)))

\* strconv.Atoi's value, where AtoiOk.
Atoi(f) ==
    IF At(f, 1) = "-" THEN 0 - DecimalValue(Tail(f))
    ELSE IF At(f, 1) = "+" THEN DecimalValue(Tail(f))
    ELSE DecimalValue(f)

(***************************************************************************)
(* scanner.go: the pure helpers.                                           *)
(***************************************************************************)

\* isAllowedControlChar: newline, carriage return, tab (as byte values).
isAllowedControlChar(b) == b = 10 \/ b = 13 \/ b = 9

\* cleanLine's marker list, in the order the loop replaces them.
prefixes == <<"//", "/*", "*/", "#", "*", "+", "-", "<!--", "-->">>

RECURSIVE ReplacePrefixes(_, _)
\* The inner loop of cleanLine: every marker, wherever it stands, becomes a space.
ReplacePrefixes(trimmed, k) ==
    IF k > Len(prefixes) THEN trimmed
    ELSE ReplacePrefixes(ReplaceAll(trimmed, prefixes[k], " "), k + 1)

RECURSIVE TrimPrefixes(_, _)
\* The inner loop taking a marker away only where the line starts with it.
TrimPrefixes(trimmed, k) ==
    IF k > Len(prefixes) THEN trimmed
    ELSE IF /\ Len(trimmed) >= Len(prefixes[k])
            /\ SubSeq(trimmed, 1, Len(prefixes[k])) = prefixes[k]
    THEN TrimPrefixes(SubSeq(trimmed, Len(prefixes[k]) + 1, Len(trimmed)), k + 1)
    ELSE TrimPrefixes(trimmed, k + 1)

RECURSIVE cleanLineLeading(_)
\* cleanLine taking the markers away at the start of the line only.
cleanLineLeading(line) ==
    LET trimmed == Join(Fields(TrimPrefixes(TrimSpace(line), 1)), " ")
    IN  IF line = trimmed THEN trimmed ELSE cleanLineLeading(trimmed)

RECURSIVE cleanLine(_)
\* cleanLine: trim, replace the markers, collapse the white space, and repeat
\* until a pass changes nothing.
cleanLine(line) ==
    LET trimmed == Join(Fields(ReplacePrefixes(TrimSpace(line), 1)), " ")
    IN  IF line = trimmed THEN trimmed ELSE cleanLine(trimmed)

\* StopWords with `corp` left out of the list.
StopWordsKeepingCorp ==
    {"copyright", "c", "by", "corporation", "inc", "affiliates", "all",
     "rights", "reserved", "and", "the", "team", "authors", "license"}

\* The words normalizeForComparison skips.
StopWords ==
    {"copyright", "c", "by", "corp", "corporation", "inc", "affiliates", "all",
     "rights", "reserved", "and", "the", "team", "authors", "license"}

RECURSIVE FilterFields(_, _)
\* The token loop of normalizeForComparison, from index i on. len(field) is a
\* byte count in Go; every character that survives the mapping is ASCII here.
FilterFields(fields, i) ==
    IF i > Len(fields) THEN <<>>
    ELSE LET field == fields[i] IN
         IF field \in StopWords THEN FilterFields(fields, i + 1)
         ELSE IF Len(field) = 4 /\ AtoiOk(field) THEN FilterFields(fields, i + 1)
         ELSE IF /\ i < Len(fields) - 1
                 /\ Len(field) = 4
                 /\ AtoiOk(field)
                 /\ fields[i + 1] \in {"-", "to"}
                 /\ AtoiOk(fields[i + 2])
                 /\ Atoi(fields[i + 2]) > Atoi(field)
                 /\ Atoi(fields[i + 2]) - Atoi(field) <= 100
              THEN FilterFields(fields, i + 3)
         ELSE <<field>> \o FilterFields(fields, i + 1)

\* normalizeForComparison with the stop words and years dropped before the
\* punctuation is mapped to spaces.
normalizeWordsFirst(s) ==
    LET kept == Join(FilterFields(Fields(ToLower(s)), 1), " ")
    IN  Join(Fields(MapRunes("key", kept, 1, Len(kept))), " ")

\* normalizeForComparison: the NormalizedKey of s.
normalizeForComparison(s) ==
    LET lowered == ToLower(s)
    IN  Join(FilterFields(Fields(MapRunes("key", lowered, 1, Len(lowered))), 1), " ")

(***************************************************************************)
(* extractCopyright: the classification of one line.                       *)
(***************************************************************************)

\* The substrings that make extractCopyright skip a line (code, tests,
\* license boilerplate), looked for in the lower-cased line.
SuppressionSignals ==
    {"func ", "type ", "var ", "const ", "package ", "import ", "return ",
     ":=", "if ", "test", "echo", "find_", "append", "error:", "grep", "egrep",
     "while ", "read ", "|", "grant of", "license", "permission", "permitted",
     "distribute", "notice", "provided", "conditions", "subject to", "you may",
     "you must", "shall", "retain", "reproduce"}

\* The substrings that keep a line with a copyright word from starting a notice.
ExclusionPhrases ==
    {"copyrightadder", "copyrighttext", "addcopyright", "extractcopyright",
     "hascopyright", "copyright.sh", "copyright notice", "copyright owner",
     "copyright holder", "above copyright", "retain", "reproduce"}

\* The first condition of the loop: a line that is empty once trimmed.
IsBlank(trimmedLine) == trimmedLine = ""

\* IsSuppressed giving way to a copyright word: the line is skipped only
\* when it holds none.
IsSuppressedUnlessCopyright(trimmedLine) ==
    LET lowercaseLine == ToLower(trimmedLine)
    IN  /\ \E sig \in SuppressionSignals : Contains(lowercaseLine, sig)
        /\ ~Contains(lowercaseLine, "copyright")

\* The second condition: the lower-cased line holds a suppression signal.
IsSuppressed(trimmedLine) ==
    LET lowercaseLine == ToLower(trimmedLine)
    IN  \E sig \in SuppressionSignals : Contains(lowercaseLine, sig)

\* HasCopyrightSignal looking in the line as written only.
HasCopyrightSignalAsWritten(trimmedLine) ==
    \/ Contains(trimmedLine, "copyright")
    \/ Contains(trimmedLine, "©")
    \/ Contains(trimmedLine, "(c)")

\* The copyright words of the third condition.
HasCopyrightSignal(trimmedLine) ==
    LET lowercaseLine == ToLower(trimmedLine)
    IN  \/ Contains(lowercaseLine, "copyright")
        \/ Contains(lowercaseLine, "©")
        \/ Contains(lowercaseLine, "(c)")
        \/ Contains(trimmedLine, "(C)")

HasExclusionPhrase(trimmedLine) ==
    LET lowercaseLine == ToLower(trimmedLine)
    IN  \E ph \in ExclusionPhrases : Contains(lowercaseLine, ph)

\* IsCopyrightLine without the list of exclusion phrases.
IsCopyrightLineAnyPhrase(trimmedLine) == HasCopyrightSignal(trimmedLine)

\* The third condition as a whole: the line starts (or continues) a notice.
IsCopyrightLine(trimmedLine) ==
    HasCopyrightSignal(trimmedLine) /\ ~HasExclusionPhrase(trimmedLine)

(***************************************************************************)
(* extractCopyright: the locals of the loop as a record                    *)
(*   isCollectingCopyright, currentCopyright, copyright, seenCopyrights,   *)
(* and flushed, a history of every buffer handed to the emit-if-unseen     *)
(* block: the buffer, its cleaned text, and whether it was written out     *)
(* (a history only, not a variable of the program).                        *)
(***************************************************************************)

ExtractorStart ==
    [isCollectingCopyright |-> FALSE,
     currentCopyright      |-> "",
     copyright             |-> "",
     seenCopyrights        |-> {},
     flushed               |-> <<>>]

\* EmitIfUnseen without the look-up in seenCopyrights.
EmitAlways(st) ==
    LET cleanedCopyright    == cleanLine(st.currentCopyright)
        normalizedCopyright == normalizeForComparison(cleanedCopyright)
    IN  [st EXCEPT !.seenCopyrights = @ \cup {normalizedCopyright},
                   !.copyright = @ \o cleanedCopyright \o "\n",
                   !.flushed = Append(@, [buffer  |-> st.currentCopyright,
                                          notice  |-> cleanedCopyright,
                                          emitted |-> TRUE])]

\* EmitIfUnseen writing a new notice in front of the output instead of behind it.
EmitInFront(st) ==
    LET cleanedCopyright    == cleanLine(st.currentCopyright)
        normalizedCopyright == normalizeForComparison(cleanedCopyright)
    IN  IF normalizedCopyright \notin st.seenCopyrights
        THEN [st EXCEPT !.seenCopyrights = @ \cup {normalizedCopyright},
                        !.copyright = cleanedCopyright \o "\n" \o @,
                        !.flushed = Append(@, [buffer  |-> st.currentCopyright,
                                               notice  |-> cleanedCopyright,
                                               emitted |-> TRUE])]
        ELSE [st EXCEPT !.flushed = Append(@, [buffer  |-> st.currentCopyright,
                                               notice  |-> cleanedCopyright,
                                               emitted |-> FALSE])]

\* The emit-if-unseen block, the same at its three places: clean the buffer,
\* normalize it, and write it out unless its key was seen in this file.
EmitIfUnseen(st) ==
    LET cleanedCopyright    == cleanLine(st.currentCopyright)
        normalizedCopyright == normalizeForComparison(cleanedCopyright)
    IN  IF normalizedCopyright \notin st.seenCopyrights
        THEN [st EXCEPT !.seenCopyrights = @ \cup {normalizedCopyright},
                        !.copyright = @ \o cleanedCopyright \o "\n",
                        !.flushed = Append(@, [buffer  |-> st.currentCopyright,
                                               notice  |-> cleanedCopyright,
                                               emitted |-> TRUE])]
        ELSE [st EXCEPT !.flushed = Append(@, [buffer  |-> st.currentCopyright,
                                               notice  |-> cleanedCopyright,
                                               emitted |-> FALSE])]

\* FlushAndIdle without the reset of the collecting flag.
FlushAndCollectOn(st) ==
    IF st.isCollectingCopyright
    THEN LET e == IF Len(st.currentCopyright) > 0 THEN EmitIfUnseen(st) ELSE st
         IN  [e EXCEPT !.currentCopyright = ""]
    ELSE st

\* What a blank or a suppressed line does: while collecting, emit the buffer
\* (if it holds anything), reset it, and stop collecting.
FlushAndIdle(st) ==
    IF st.isCollectingCopyright
    THEN LET e == IF Len(st.currentCopyright) > 0 THEN EmitIfUnseen(st) ELSE st
         IN  [e EXCEPT !.currentCopyright =
                            IF Len(st.currentCopyright) > 0 THEN "" ELSE @,
                       !.isCollectingCopyright = FALSE]
    ELSE st

\* The third branch: a copyright line is written to the buffer as it is, any
\* other line is written after a space while collecting, and dropped otherwise.
Collect(st, trimmedLine) ==
    IF IsCopyrightLine(trimmedLine)
    THEN [st EXCEPT !.isCollectingCopyright = TRUE,
                    !.currentCopyright = @ \o trimmedLine]
    ELSE IF st.isCollectingCopyright
    THEN [st EXCEPT !.currentCopyright = @ \o " " \o trimmedLine]
    ELSE st

\* FlushAtEOF that writes nothing: what is in the buffer at the end of the
\* input is dropped.
FlushAtEOFDropped(st) == st

\* FlushAtEOF resetting the buffer and the collecting flag as the other two
\* flushes do.
FlushAtEOFAndIdle(st) ==
    IF st.isCollectingCopyright /\ Len(st.currentCopyright) > 0
    THEN [EmitIfUnseen(st) EXCEPT !.currentCopyright = "",
                                  !.isCollectingCopyright = FALSE]
    ELSE st

\* The block under `if err == io.EOF` that ends the loop: the buffer is
\* emitted, and neither reset nor is the collecting flag cleared.
FlushAtEOF(st) ==
    IF st.isCollectingCopyright /\ Len(st.currentCopyright) > 0
    THEN EmitIfUnseen(st)
    ELSE st

\* One pass of the loop body over a chunk that ReadString returned without a
\* read error; eof tells whether it came with io.EOF.
ProcessLine(st, line, eof) ==
    LET trimmedLine == TrimSpace(line)
    IN  IF IsBlank(trimmedLine) THEN FlushAndIdle(st)
        ELSE IF IsSuppressed(trimmedLine) THEN FlushAndIdle(st)
        ELSE IF eof THEN FlushAtEOF(Collect(st, trimmedLine))
        ELSE Collect(st, trimmedLine)

RECURSIVE ExtractLoop(_, _, _)
\* The loop of extractCopyright over the chunks ReadString returns for a
\* file, from chunk i on; the last chunk is the one that comes with io.EOF.
ExtractLoop(st, chunks, i) ==
    IF i = Len(chunks) THEN ProcessLine(st, chunks[i], TRUE)
    ELSE ExtractLoop(ProcessLine(st, chunks[i] \o "\n", FALSE), chunks, i + 1)

\* extractCopyright on a file that is opened and read without an error: the
\* output string. ReadString('\n') cuts the content behind every newline.
extractCopyright(content) ==
    ExtractLoop(ExtractorStart, Split(content, "\n"), 1).copyright

(***************************************************************************)
(* isTextFile.                                                             *)
(***************************************************************************)

\* make([]byte, 512): the size of the sample.
SampleSize == 512

\* A sample that is the whole file.
SampleWholeFile(bytes) == bytes

\* buf[:n] after file.Read(buf) on a regular file: its first SampleSize
\* bytes, or all of them if it is shorter.
SampleOf(bytes) == SubSeq(bytes, 1, Min(SampleSize, Len(bytes)))

\* The checks isTextFile makes on the sample: no zero byte, and no byte
\* below 32 other than newline, carriage return and tab.
SampleIsText(buf) ==
    /\ ~\E i \in 1..Len(buf) : buf[i] = 0
    /\ \A i \in 1..Len(buf) : ~(buf[i] < 32 /\ ~isAllowedControlChar(buf[i]))

\* isTextFile on a file that opens and reads without an error.
isTextFile(bytes) == SampleIsText(SampleOf(bytes))

\* The UTF-8 bytes of the characters the model's file contents are made of.
Ascii32to95 ==
    " !\"#$%&'()*+,-./0123456789:;<=>?@ABCDEFGHIJKLMNOPQRSTUVWXYZ[\\]^_"

Ascii97to126 == "abcdefghijklmnopqrstuvwxyz{|}~"

Utf8 ==
    [c \in {At(Ascii32to95, i) : i \in 1..Len(Ascii32to95)}
           \cup {At(Ascii97to126, i) : i \in 1..Len(Ascii97to126)}
           \cup {"\t", "\n", "\f", "\r", "©"} |->
        IF c = "\t" THEN <<9>>
        ELSE IF c = "\n" THEN <<10>>
        ELSE IF c = "\f" THEN <<12>>
        ELSE IF c = "\r" THEN <<13>>
        ELSE IF c = "©" THEN <<194, 169>>
        ELSE IF \E i \in 1..Len(Ascii32to95) : At(Ascii32to95, i) = c
        THEN <<31 + CHOOSE i \in 1..Len(Ascii32to95) : At(Ascii32to95, i) = c>>
        ELSE <<96 + CHOOSE i \in 1..Len(Ascii97to126) : At(Ascii97to126, i) = c>>]

RECURSIVE BytesOf(_, _, _)
\* The bytes of the characters lo..hi of a string.
BytesOf(s, lo, hi) ==
    IF lo > hi THEN <<>>
    ELSE IF lo = hi THEN Utf8[At(s, lo)]
    ELSE BytesOf(s, lo, (lo + hi) \div 2) \o BytesOf(s, (lo + hi) \div 2 + 1, hi)

(***************************************************************************)
(* ScanDirectory: the pure parts.                                          *)
(***************************************************************************)

\* The names ScanDirectory tries for the license file, in this order.
licenseFiles ==
    <<"LICENSE", "LICENSE.txt", "LICENSE.md", "license", "license.txt", "license.md">>

\* os.ReadFile(filepath.Join(dir, name)) succeeds: a regular file of that
\* name stands directly under dir and can be read.
CanReadFile(entries, name) ==
    \E i \in 1..Len(entries) :
        /\ entries[i].path = name
        /\ entries[i].kind = "file"
        /\ entries[i].readable

ReadFile(entries, name) ==
    entries[CHOOSE i \in 1..Len(entries) : entries[i].path = name].content

RECURSIVE ProbeLicenseLast(_, _, _)
\* The license loop without its break: every readable candidate overwrites
\* the content found before it.
ProbeLicenseLast(entries, k, found) ==
    IF k > Len(licenseFiles) THEN found
    ELSE IF CanReadFile(entries, licenseFiles[k])
    THEN ProbeLicenseLast(entries, k + 1, ReadFile(entries, licenseFiles[k]))
    ELSE ProbeLicenseLast(entries, k + 1, found)

RECURSIVE ProbeLicenseNonEmpty(_, _, _)
\* The license loop going on to the next candidate when the one it read is
\* empty.
ProbeLicenseNonEmpty(entries, k, found) ==
    IF k > Len(licenseFiles) THEN found
    ELSE IF CanReadFile(entries, licenseFiles[k])
            /\ ReadFile(entries, licenseFiles[k]) # ""
    THEN ReadFile(entries, licenseFiles[k])
    ELSE ProbeLicenseNonEmpty(entries, k + 1, found)

RECURSIVE ProbeLicense(_, _, _)
\* The license loop from candidate k on: the content of the first candidate
\* that can be read, and licenseContent's zero value "" when none can.
ProbeLicense(entries, k, found) ==
    IF k > Len(licenseFiles) THEN found
    ELSE IF CanReadFile(entries, licenseFiles[k])
    THEN ReadFile(entries, licenseFiles[k])
    ELSE ProbeLicense(entries, k + 1, found)

RECURSIVE MergeNoticesInFront(_, _, _)
\* MergeNotices writing a new line in front of result instead of behind it.
MergeNoticesInFront(acc, copyrights, i) ==
    IF i > Len(copyrights) THEN acc
    ELSE IF copyrights[i] # "" /\ copyrights[i] \notin acc.seenCopyrights
    THEN MergeNoticesInFront(
             [result         |-> copyrights[i] \o "\n" \o acc.result,
              seenCopyrights |-> acc.seenCopyrights \cup {copyrights[i]}],
             copyrights, i + 1)
    ELSE MergeNoticesInFront(acc, copyrights, i + 1)

RECURSIVE MergeNotices(_, _, _)
\* The loop over strings.Split(copyright, "\n") in the walk callback: a line
\* that is not empty and is not a key of seenCopyrights is entered there and
\* written to result. acc is [result, seenCopyrights].
MergeNotices(acc, copyrights, i) ==
    IF i > Len(copyrights) THEN acc
    ELSE IF copyrights[i] # "" /\ copyrights[i] \notin acc.seenCopyrights
    THEN MergeNotices([result         |-> acc.result \o copyrights[i] \o "\n",
                       seenCopyrights |-> acc.seenCopyrights \cup {copyrights[i]}],
                      copyrights, i + 1)
    ELSE MergeNotices(acc, copyrights, i + 1)

\* The walk callback behind a successful extraction.
MergeFile(acc, copyright) ==
    IF copyright # "" THEN MergeNotices(acc, Split(copyright, "\n"), 1) ELSE acc

\* WithLicense writing the closing newline whatever the license ends with.
WithLicenseAndNewline(result, license) ==
    IF license # ""
    THEN result \o "\nLicense Text:\n"
                \o "----------------------------------------\n\n"
                \o license \o "\n"
    ELSE result

\* The end of ScanDirectory: the license section behind the notices.
WithLicense(result, license) ==
    IF license # ""
    THEN result \o "\nLicense Text:\n"
                \o "----------------------------------------\n\n"
                \o license
                \o (IF ~HasSuffix(license, "\n") THEN "\n" ELSE "")
    ELSE result

(***************************************************************************)
(* State.                                                                  *)
(***************************************************************************)

VARIABLES
    \* one call of extractCopyright
    pc,                    \* "open", "read" (at the top of the loop), "returned"
    nRead,                 \* chunks ReadString has returned so far
    line,                  \* the chunk the last pass of the loop worked on
    atEOF,                 \* that chunk came with io.EOF
    isCollectingCopyright, \* the Collecting / Idle state
    currentCopyright,      \* the NoticeBuffer
    copyright,             \* the output built so far
    seenCopyrights,        \* the per-file SeenSet
    flushed,               \* history: every buffer flushed, in order
    extractOut,            \* the string extractCopyright returned
    extractErr,            \* it returned a non-nil error
    \* one call of normalizeForComparison, and one more on its result
    normIn,                \* the argument
    normKeys,              \* the keys computed so far
    \* one call of isTextFile
    textPc,                \* "open", "read", "check", "returned"
    fileBytes,             \* the bytes of the file
    buf,                   \* the sample read
    textErr,               \* "" or the call that failed: "open", "read"
    isText,                \* the value returned
    \* one call of ScanDirectory
    dirPc,                 \* "probe", "walk", "returned"
    tree,                  \* the entries under dir, in the order Walk visits them
    licenseContent,
    visited,               \* entries the walk callback has been called on
    result,                \* the strings.Builder of the report
    treeSeen,              \* ScanDirectory's seenCopyrights
    failedFiles,           \* history: paths whose extraction returned an error
    report,                \* the string ScanDirectory returned
    scanErr,               \* it returned a non-nil error
    \* one call of ScanSubDirectories
    subPc,                 \* "list", "loop" (at the top of the loop), "returned"
    children,              \* the entries of rootDir, as os.ReadDir lists them
    outputPattern,
    prefixFile,            \* template/prefix.txt: [readable, content]
    subIdx,                \* entries the loop is through with
    scanned,               \* history: the entries ScanDirectory was called on
    written,               \* history: the files written, in the order written
    writeFailed,           \* history: the paths os.WriteFile failed on
    subErr,                \* it returned a non-nil error
    \* one call of extractZip
    zipPc,                 \* "open", "loop" (at the top of the loop), "returned"
    archive,               \* reader.File
    zipIdx,                \* entries the loop is through with
    extracted,             \* the paths created
    ioFailed,              \* history: the entries an I/O call failed on, and the call
    zipErr,                \* it returned a non-nil error
    \* cleanLine applied to a line and then to its result
    cleanIn,               \* the line
    cleanOut,              \* the results so far
    \* the file handles of one call of ScanDirectory, ScanSubDirectories or
    \* extractZip
    hFn,                   \* the function called
    hDirs,                 \* the directories it scans, each as its entries
    hArchive,              \* reader.File
    hChild,                \* directories it is through with
    hIdx,                  \* entries of the directory (archive) it is through with
    hPc,                   \* where the call is
    handles,               \* the handles that are open
    closed,                \* history: the handles closed, in the order closed
    hErr,                  \* it returned a non-nil error
    \* one call of AnalyzeZipFile or AnalyzeCopyright
    anFn,                  \* the function called
    anPc,                  \* where the call is
    anCalls,               \* history: the steps it has run, in their order
    anStaged,              \* the staging directory exists
    anInfo,                \* copyrightInfo
    anOut,                 \* the string it returned
    anErr                  \* the error it returned, "" for nil

extractVars ==
    <<pc, nRead, line, atEOF, isCollectingCopyright, currentCopyright,
      copyright, seenCopyrights, flushed, extractOut, extractErr>>

normVars == <<normIn, normKeys>>

textVars == <<textPc, fileBytes, buf, textErr, isText>>

dirVars ==
    <<dirPc, tree, licenseContent, visited, result, treeSeen, failedFiles,
      report, scanErr>>

subVars ==
    <<subPc, children, outputPattern, prefixFile, subIdx, scanned, written,
      writeFailed, subErr>>

zipVars == <<zipPc, archive, zipIdx, extracted, ioFailed, zipErr>>

cleanVars == <<cleanIn, cleanOut>>

handleVars == <<hFn, hDirs, hArchive, hChild, hIdx, hPc, handles, closed, hErr>>

anVars == <<anFn, anPc, anCalls, anStaged, anInfo, anOut, anErr>>

vars ==
    <<extractVars, normVars, textVars, dirVars, subVars, zipVars, cleanVars,
      handleVars, anVars>>

\* The loop's locals as the record the loop body works on.
Locals ==
    [isCollectingCopyright |-> isCollectingCopyright,
     currentCopyright      |-> currentCopyright,
     copyright             |-> copyright,
     seenCopyrights        |-> seenCopyrights,
     flushed               |-> flushed]

(***************************************************************************)
(* Inputs.                                                                 *)
(***************************************************************************)

\* extractCopyright: the lines a file is made of, and how many chunks
\* ReadString returns for it at most.
MaxLines == 3

FileLines ==
    {"Copyright (c) 2020 Acme Corp.",
     "copyright 2020 ACME CORP\r",
     "",
     "// Copyright 2019-2021",
     "// Example Inc. All rights reserved.",
     "func Copyright() string {",
     " * (C) 2022 Open Source Project",
     "the copyright holder",
     "© 2023 Another Company Inc."}

\* normalizeForComparison: the arguments are up to MaxPieces of these pieces,
\* joined by spaces.
MaxPieces == 3

NormPieces ==
    {"Copyright", "(c)", "©", "2020", "2019-2021", "2019 to 2021", "Acme",
     "ACME", "Corp."}

\* The example lines of the README, and a year range written with `to`.
NormExamples ==
    {"Copyright (c) 2020 Acme Corp.", "copyright 2020 ACME CORP",
     "2019 to 2021 Acme"}

NormInputs ==
    {Join(p, " ") : p \in UNION {[1..n -> NormPieces] : n \in 0..MaxPieces}}
        \cup NormExamples

\* cleanLine: the lines are up to MaxMarks of these pieces, written one
\* behind the other.
MaxMarks == 3

CleanPieces ==
    {"/", "*", "#", "+", "-", "<!--", "-->", "<!", ">", " ", "\n",
     "(c) 2020 Acme"}

RECURSIVE Concat(_, _)
Concat(pieces, i) ==
    IF i > Len(pieces) THEN "" ELSE pieces[i] \o Concat(pieces, i + 1)

CleanInputs ==
    {Concat(p, 1) : p \in UNION {[1..n -> CleanPieces] : n \in 0..MaxMarks}}

\* isTextFile: a file is a run of letters, one byte to look at, and up to
\* MaxTail more letters; the byte stands right at the start or around the
\* end of the sample.
MaxTail == 1

ProbeBytes == {0, 7, 9, 10, 13, 31, 32, 200}

PadLengths == {0, SampleSize - 2, SampleSize - 1, SampleSize, SampleSize + 1}

Letters(n) == [i \in 1..n |-> 65]

TextFiles ==
    {<<>>} \cup {Letters(n) \o <<b>> \o Letters(t) :
                    n \in PadLengths, b \in ProbeBytes, t \in 0..MaxTail}

\* ScanDirectory: what can stand under dir, in the order filepath.Walk visits
\* it (lexical, a directory before what it holds). A tree is a choice of at
\* most MaxEntries of these, no path twice.
MaxEntries == 3

File(path, readable, content) ==
    [path |-> path, kind |-> "file", readable |-> readable, walkErr |-> FALSE,
     content |-> content]

Dir(path, walkErr) ==
    [path |-> path, kind |-> "dir", readable |-> TRUE, walkErr |-> walkErr,
     content |-> ""]

DirCatalogue ==
    <<File("LICENSE", TRUE, "MIT License\nCopyright (c) 2020 Acme Corp."),
      File("LICENSE", TRUE, ""),
      File("LICENSE", FALSE, "MIT License\n"),
      File("LICENSE.txt", TRUE, "Apache License\n"),
      File("a.go", TRUE, "// Copyright (c) 2020 Acme Corp.\n"),
      File("b.go", TRUE, "copyright 2020 ACME CORP\n\n© 2023 Another Company Inc."),
      File("blob.bin", TRUE, "Copyright (c) 2021 Blob\f"),
      File("c.go", TRUE, "# Copyright (c) 2020 Acme Corp.\n"),
      File("license", TRUE, "BSD License\n"),
      Dir("locked", TRUE),
      Dir("sub", FALSE),
      File("sub/LICENSE", TRUE, "GPL License\n")>>

\* The entries of the catalogue at the indices S, in the catalogue's order.
TreeOf(S) ==
    [k \in 1..Cardinality(S) |->
        DirCatalogue[CHOOSE i \in S : Cardinality({j \in S : j < i}) = k - 1]]

Trees ==
    {TreeOf(S) : S \in
        {S \in SUBSET (1..Len(DirCatalogue)) :
            /\ Cardinality(S) <= MaxEntries
            /\ \A i, j \in S : i # j => DirCatalogue[i].path # DirCatalogue[j].path
            /\ (\E i \in S : DirCatalogue[i].path = "sub/LICENSE")
                  => \E i \in S : DirCatalogue[i].path = "sub"}}

\* isTextFile and extractCopyright depend on a file's content alone: their
\* values on the contents of the catalogue.
\* A file of the subdirectories ScanSubDirectories is run on.
DeltaFile == File("d.go", TRUE, "/* (C) 2024 Delta Ltd */\n")

CatalogueContents ==
    {DirCatalogue[i].content : i \in 1..Len(DirCatalogue)} \cup {DeltaFile.content}

TextOf == [c \in CatalogueContents |-> isTextFile(BytesOf(c, 1, Len(c)))]

ExtractedOf == [c \in CatalogueContents |-> extractCopyright(c)]

RECURSIVE WalkFrom(_, _, _, _)
\* filepath.Walk with the callback of ScanDirectory, from entry k on; failing
\* holds the paths on which extractCopyright returns an error. acc is
\* [result, seenCopyrights, err], err being the error Walk returns.
WalkFrom(entries, failing, k, acc) ==
    IF k > Len(entries) THEN acc
    ELSE IF entries[k].walkErr THEN [acc EXCEPT !.err = TRUE]
    ELSE IF \/ entries[k].kind = "dir"
            \/ ~entries[k].readable
            \/ ~TextOf[entries[k].content]
    THEN WalkFrom(entries, failing, k + 1, acc)
    ELSE IF entries[k].path \in failing
    THEN WalkFrom(entries, failing, k + 1, acc)
    ELSE LET merged == MergeFile([result         |-> acc.result,
                                  seenCopyrights |-> acc.seenCopyrights],
                                 ExtractedOf[entries[k].content])
         IN  WalkFrom(entries, failing, k + 1,
                      [result         |-> merged.result,
                       seenCopyrights |-> merged.seenCopyrights,
                       err            |-> acc.err])

\* ScanDirectory as a whole, on the entries under dir: the report and whether
\* an error is returned with it.
ScanDirectory(entries, failing) ==
    LET license == ProbeLicense(entries, 1, "")
        walked  == WalkFrom(entries, failing, 1,
                            [result |-> "", seenCopyrights |-> {}, err |-> FALSE])
    IN  IF walked.err
        THEN [report |-> "", err |-> TRUE]
        ELSE [report |-> WithLicense(walked.result, license), err |-> FALSE]

(***************************************************************************)
(* ScanSubDirectories: the output path, the template prefix.               *)
(***************************************************************************)

\* strings.TrimSuffix
TrimSuffix(s, suffix) ==
    IF HasSuffix(s, suffix) THEN SubSeq(s, 1, Len(s) - Len(suffix)) ELSE s

\* filepath.Ext: the suffix that begins at the last dot of the last element
\* of the path, "" when that element has no dot.
Ext(path) ==
    LET dots == {i \in 1..Len(path) :
                    /\ At(path, i) = "."
                    /\ \A j \in i..Len(path) : At(path, j) # "/"}
    IN  IF dots = {} THEN ""
        ELSE SubSeq(path, CHOOSE i \in dots : \A j \in dots : j <= i, Len(path))

\* OutputFile with the name spliced in whether or not the pattern holds the
\* placeholder.
OutputFileAlwaysSpliced(pattern, name) ==
    LET outputFile == ReplaceAll(pattern, "{name}", name)
        ext        == Ext(outputFile)
        base       == TrimSuffix(outputFile, ext)
    IN  (IF HasSuffix(base, "_") THEN TrimSuffix(base, "_") ELSE base)
            \o "_" \o name \o ext

\* OutputFile without the removal of an underscore that ends the base name.
OutputFileKeepingUnderscore(pattern, name) ==
    LET outputFile == ReplaceAll(pattern, "{name}", name)
    IN  IF ~Contains(pattern, "{name}")
        THEN LET ext  == Ext(outputFile)
                 base == TrimSuffix(outputFile, ext)
             IN  base \o "_" \o name \o ext
        ELSE outputFile

\* The name of the output file of the child `name`.
OutputFile(pattern, name) ==
    LET outputFile == ReplaceAll(pattern, "{name}", name)
    IN  IF ~Contains(pattern, "{name}")
        THEN LET ext  == Ext(outputFile)
                 base == TrimSuffix(outputFile, ext)
             IN  (IF HasSuffix(base, "_") THEN TrimSuffix(base, "_") ELSE base)
                     \o "_" \o name \o ext
        ELSE outputFile

\* The loop over the lines of prefix.txt: the first line that is `Software:`
\* between white space becomes `Software: <name>`.
SoftwareLine(lines, name) ==
    LET hits == {i \in 1..Len(lines) : TrimSpace(lines[i]) = "Software:"}
    IN  IF hits = {} THEN lines
        ELSE [lines EXCEPT ![Least(hits)] = "Software: " \o name]

\* What is written for a child: the report, behind the prefix when
\* template/prefix.txt can be read. prefix is [readable, content].
WithPrefix(prefix, name, copyrightText) ==
    IF prefix.readable
    THEN LET prefixContent == Join(SoftwareLine(Split(prefix.content, "\n"), name), "\n")
         IN  prefixContent
                 \o (IF ~HasSuffix(prefixContent, "\n") THEN "\n" ELSE "")
                 \o copyrightText
    ELSE copyrightText

\* ScanSubDirectories: what can stand under rootDir, in the order os.ReadDir
\* lists it (by name): the directories a, b and z and the file notes.txt. A
\* directory holds one of four trees: a.go; a.go and d.go; LICENSE and d.go;
\* a directory the walk fails on. An entry carries, as scan, what
\* ScanDirectory returns on it for each set of files the extraction may
\* fail on.
MaxChildren == 3

ChildNames == <<"a", "b", "notes.txt", "z">>

SubTrees ==
    {<<DirCatalogue[5]>>,
     <<DirCatalogue[5], DeltaFile>>,
     <<DirCatalogue[1], DeltaFile>>,
     <<DirCatalogue[10]>>}

\* The files of a subdirectory on which the extraction may fail.
FailingSets == {{}, {"d.go"}}

ChildChoices(i) ==
    IF ChildNames[i] = "notes.txt"
    THEN {[name |-> ChildNames[i], isDir |-> FALSE, entries |-> <<>>,
           scan |-> <<>>]}
    ELSE {[name |-> ChildNames[i], isDir |-> TRUE, entries |-> t,
           scan |-> [f \in FailingSets |-> ScanDirectory(t, f)]] :
             t \in SubTrees}

\* The k-th least element of a set of numbers.
Nth(S, k) == CHOOSE i \in S : Cardinality({j \in S : j < i}) = k - 1

RootListings ==
    UNION {UNION {{f \in [1..Cardinality(S) -> {c[2] : c \in choices}] :
                     \A k \in 1..Cardinality(S) : <<Nth(S, k), f[k]>> \in choices} :
                  S \in {S \in SUBSET (1..Len(ChildNames)) :
                            Cardinality(S) <= MaxChildren}} :
           choices \in {UNION {{<<i, c>> : c \in ChildChoices(i)} :
                                i \in 1..Len(ChildNames)}}}

OutputPatterns ==
    {"out_{name}.txt", "reports/{name}", "out.txt", "out_.txt", "res.d/out"}

PrefixFiles ==
    {[readable |-> FALSE, content |-> ""],
     [readable |-> TRUE, content |-> "Software:\n"],
     [readable |-> TRUE, content |-> "Header\n  Software:  \nSoftware:"]}

(***************************************************************************)
(* extractZip: paths, and the archives it is run on.                       *)
(***************************************************************************)

RECURSIVE CleanFrom(_, _, _, _)
\* The loop of filepath.Clean over the elements of a path, from element i
\* on: an empty element and `.` are dropped, `..` takes the element before
\* it away (at the root it is dropped, at the front of a relative path it
\* stays).
CleanFrom(elems, i, rooted, out) ==
    IF i > Len(elems) THEN out
    ELSE IF elems[i] \in {"", "."} THEN CleanFrom(elems, i + 1, rooted, out)
    ELSE IF elems[i] = ".."
    THEN IF out # <<>> /\ out[Len(out)] # ".."
         THEN CleanFrom(elems, i + 1, rooted, SubSeq(out, 1, Len(out) - 1))
         ELSE IF rooted THEN CleanFrom(elems, i + 1, rooted, out)
         ELSE CleanFrom(elems, i + 1, rooted, Append(out, ".."))
    ELSE CleanFrom(elems, i + 1, rooted, Append(out, elems[i]))

\* filepath.Clean
Clean(path) ==
    LET rooted == path # "" /\ At(path, 1) = "/"
        out    == Join(CleanFrom(Split(path, "/"), 1, rooted, <<>>), "/")
    IN  IF rooted THEN "/" \o out
        ELSE IF out = "" THEN "." ELSE out

\* filepath.Join of two elements.
JoinPath(dir, name) ==
    IF dir = "" /\ name = "" THEN ""
    ELSE IF dir = "" THEN Clean(name)
    ELSE IF name = "" THEN Clean(dir)
    ELSE Clean(dir \o "/" \o name)

\* filepath.Dir: the path without its last element.
DirOf(path) ==
    LET slashes == {i \in 1..Len(path) : At(path, i) = "/"}
    IN  IF slashes = {} THEN "."
        ELSE Clean(SubSeq(path, 1, CHOOSE i \in slashes : \A j \in slashes : j <= i))

\* An archive is a sequence of at most MaxArchive entries, a name more than
\* once if it likes; a directory entry is one whose name ends with a slash.
MaxArchive == 3

destDir == "/tmp/nemesis_analysis_1"

ZipEntry(name) == [name |-> name, isDir |-> HasSuffix(name, "/")]

ZipNames == {"README", "docs/", "src/", "src/a.go", "../evil.sh"}

Archives ==
    UNION {[1..n -> {ZipEntry(name) : name \in ZipNames}] : n \in 0..MaxArchive}

\* The calls of the loop body on a file entry that can fail, in their order.
FileCalls == <<"MkdirAll", "OpenFile", "Open", "Copy">>

(***************************************************************************)
(* The state in which a function is not running.                           *)
(***************************************************************************)

ExtractIdle ==
    /\ pc = "open"
    /\ nRead = 0
    /\ line = ""
    /\ atEOF = FALSE
    /\ isCollectingCopyright = ExtractorStart.isCollectingCopyright
    /\ currentCopyright = ExtractorStart.currentCopyright
    /\ copyright = ExtractorStart.copyright
    /\ seenCopyrights = ExtractorStart.seenCopyrights
    /\ flushed = ExtractorStart.flushed
    /\ extractOut = ""
    /\ extractErr = FALSE

NormIdle ==
    /\ normIn = ""
    /\ normKeys = <<>>

TextIdle ==
    /\ textPc = "open"
    /\ fileBytes = <<>>
    /\ buf = <<>>
    /\ textErr = ""
    /\ isText = FALSE

DirIdle ==
    /\ dirPc = "probe"
    /\ tree = <<>>
    /\ licenseContent = ""
    /\ visited = 0
    /\ result = ""
    /\ treeSeen = {}
    /\ failedFiles = {}
    /\ report = ""
    /\ scanErr = FALSE

SubIdle ==
    /\ subPc = "list"
    /\ children = <<>>
    /\ outputPattern = ""
    /\ prefixFile = [readable |-> FALSE, content |-> ""]
    /\ subIdx = 0
    /\ scanned = <<>>
    /\ written = <<>>
    /\ writeFailed = {}
    /\ subErr = FALSE

ZipIdle ==
    /\ zipPc = "open"
    /\ archive = <<>>
    /\ zipIdx = 0
    /\ extracted = {}
    /\ ioFailed = {}
    /\ zipErr = FALSE

CleanIdle ==
    /\ cleanIn = ""
    /\ cleanOut = <<>>

HandlesIdle ==
    /\ hFn = ""
    /\ hDirs = <<>>
    /\ hArchive = <<>>
    /\ hChild = 0
    /\ hIdx = 0
    /\ hPc = "call"
    /\ handles = {}
    /\ closed = <<>>
    /\ hErr = FALSE

AnalyzeIdle ==
    /\ anFn = ""
    /\ anPc = "stage"
    /\ anCalls = <<>>
    /\ anStaged = FALSE
    /\ anInfo = ""
    /\ anOut = ""
    /\ anErr = ""

(***************************************************************************)
(* extractCopyright, one action per step of the function.                  *)
(***************************************************************************)

\* os.Open succeeds: the reader and the locals are set up.
OpenFile ==
    /\ pc = "open"
    /\ pc' = "read"
    /\ UNCHANGED <<nRead, line, atEOF, isCollectingCopyright, currentCopyright,
                   copyright, seenCopyrights, flushed, extractOut, extractErr>>
    /\ UNCHANGED <<normVars, textVars, dirVars, subVars, zipVars,
                   cleanVars, handleVars, anVars>>

\* os.Open fails: return "", err.
OpenFail ==
    /\ pc = "open"
    /\ pc' = "returned"
    /\ extractOut' = ""
    /\ extractErr' = TRUE
    /\ UNCHANGED <<nRead, line, atEOF, isCollectingCopyright, currentCopyright,
                   copyright, seenCopyrights, flushed>>
    /\ UNCHANGED <<normVars, textVars, dirVars, subVars, zipVars,
                   cleanVars, handleVars, anVars>>

\* ReadString returns the next chunk: a line with its newline, or at the end
\* of the file what is left of it (possibly nothing) with io.EOF. The loop
\* body runs on it, and at io.EOF the function returns the output.
ReadLine ==
    /\ pc = "read"
    /\ \E text \in FileLines, eof \in BOOLEAN :
          /\ nRead + 1 = MaxLines => eof
          /\ \E st \in {ProcessLine(Locals, IF eof THEN text ELSE text \o "\n", eof)} :
                 /\ line' = IF eof THEN text ELSE text \o "\n"
                 /\ atEOF' = eof
                 /\ isCollectingCopyright' = st.isCollectingCopyright
                 /\ currentCopyright' = st.currentCopyright
                 /\ copyright' = st.copyright
                 /\ seenCopyrights' = st.seenCopyrights
                 /\ flushed' = st.flushed
                 /\ pc' = IF eof THEN "returned" ELSE "read"
                 /\ extractOut' = IF eof THEN st.copyright ELSE extractOut
    /\ nRead' = nRead + 1
    /\ UNCHANGED extractErr
    /\ UNCHANGED <<normVars, textVars, dirVars, subVars, zipVars,
                   cleanVars, handleVars, anVars>>

\* ReadString fails with an error other than io.EOF: return "", err.
ReadFail ==
    /\ pc = "read"
    /\ pc' = "returned"
    /\ extractOut' = ""
    /\ extractErr' = TRUE
    /\ UNCHANGED <<nRead, line, atEOF, isCollectingCopyright, currentCopyright,
                   copyright, seenCopyrights, flushed>>
    /\ UNCHANGED <<normVars, textVars, dirVars, subVars, zipVars,
                   cleanVars, handleVars, anVars>>

Init ==
    /\ ExtractIdle /\ NormIdle /\ TextIdle /\ DirIdle /\ SubIdle /\ ZipIdle
    /\ CleanIdle /\ HandlesIdle /\ AnalyzeIdle

Next == OpenFile \/ OpenFail \/ ReadLine \/ ReadFail

Spec == Init /\ [][Next]_vars

\* os.Open returns, with a file or with an error.
OpenReturns == pc = "open" /\ pc' \in {"read", "returned"}

\* ReadString returns the next chunk of the file.
ReadReturns == pc = "read" /\ nRead' = nRead + 1

\* The function runs on its caller's goroutine and nothing in it waits for
\* another: os.Open returns, and while the loop runs ReadString on a file
\* returns, with a chunk unless it fails, which ends the call too.
SpecLive == Spec /\ WF_pc(OpenReturns) /\ WF_nRead(ReadReturns)

(***************************************************************************)
(* normalizeForComparison, applied to an argument and then to its result.  *)
(***************************************************************************)

Normalize ==
    /\ normKeys = <<>>
    /\ normKeys' = <<normalizeForComparison(normIn)>>
    /\ UNCHANGED normIn
    /\ UNCHANGED <<extractVars, textVars, dirVars, subVars, zipVars,
                   cleanVars, handleVars, anVars>>

NormalizeAgain ==
    /\ Len(normKeys) = 1
    /\ normKeys' = Append(normKeys, normalizeForComparison(normKeys[1]))
    /\ UNCHANGED normIn
    /\ UNCHANGED <<extractVars, textVars, dirVars, subVars, zipVars,
                   cleanVars, handleVars, anVars>>

InitNorm ==
    /\ normIn \in NormInputs
    /\ normKeys = <<>>
    /\ ExtractIdle /\ TextIdle /\ DirIdle /\ SubIdle /\ ZipIdle
    /\ CleanIdle /\ HandlesIdle /\ AnalyzeIdle

NextNorm == Normalize \/ NormalizeAgain

SpecNorm == InitNorm /\ [][NextNorm]_vars

(***************************************************************************)
(* cleanLine, applied to a line and then to its result.                    *)
(***************************************************************************)

Clean1 ==
    /\ cleanOut = <<>>
    /\ cleanOut' = <<cleanLine(cleanIn)>>
    /\ UNCHANGED cleanIn
    /\ UNCHANGED <<extractVars, normVars, textVars, dirVars, subVars, zipVars,
                   handleVars, anVars>>

CleanAgain ==
    /\ Len(cleanOut) = 1
    /\ cleanOut' = Append(cleanOut, cleanLine(cleanOut[1]))
    /\ UNCHANGED cleanIn
    /\ UNCHANGED <<extractVars, normVars, textVars, dirVars, subVars, zipVars,
                   handleVars, anVars>>

InitClean ==
    /\ cleanIn \in CleanInputs
    /\ cleanOut = <<>>
    /\ ExtractIdle /\ NormIdle /\ TextIdle /\ DirIdle /\ SubIdle /\ ZipIdle
    /\ HandlesIdle /\ AnalyzeIdle

NextClean == Clean1 \/ CleanAgain

SpecClean == InitClean /\ [][NextClean]_vars

(***************************************************************************)
(* isTextFile, one action per step of the function.                        *)
(***************************************************************************)

\* os.Open succeeds.
OpenSample ==
    /\ textPc = "open"
    /\ textPc' = "read"
    /\ UNCHANGED <<fileBytes, buf, textErr, isText>>
    /\ UNCHANGED <<extractVars, normVars, dirVars, subVars, zipVars,
                   cleanVars, handleVars, anVars>>

\* os.Open fails: return false.
OpenSampleFail ==
    /\ textPc = "open"
    /\ textPc' = "returned"
    /\ textErr' = "open"
    /\ isText' = FALSE
    /\ UNCHANGED <<fileBytes, buf>>
    /\ UNCHANGED <<extractVars, normVars, dirVars, subVars, zipVars,
                   cleanVars, handleVars, anVars>>

\* file.Read(buf) returns n bytes, with a nil error or (on an empty file)
\* io.EOF: buf = buf[:n].
ReadSample ==
    /\ textPc = "read"
    /\ textPc' = "check"
    /\ buf' = SampleOf(fileBytes)
    /\ UNCHANGED <<fileBytes, textErr, isText>>
    /\ UNCHANGED <<extractVars, normVars, dirVars, subVars, zipVars,
                   cleanVars, handleVars, anVars>>

\* file.Read fails with an error other than io.EOF: return false.
ReadSampleFail ==
    /\ textPc = "read"
    /\ textPc' = "returned"
    /\ textErr' = "read"
    /\ isText' = FALSE
    /\ UNCHANGED <<fileBytes, buf>>
    /\ UNCHANGED <<extractVars, normVars, dirVars, subVars, zipVars,
                   cleanVars, handleVars, anVars>>

\* The two checks on the sample, and the return.
CheckSample ==
    /\ textPc = "check"
    /\ textPc' = "returned"
    /\ isText' = SampleIsText(buf)
    /\ UNCHANGED <<fileBytes, buf, textErr>>
    /\ UNCHANGED <<extractVars, normVars, dirVars, subVars, zipVars,
                   cleanVars, handleVars, anVars>>

InitText ==
    /\ textPc = "open"
    /\ fileBytes \in TextFiles
    /\ buf = <<>>
    /\ textErr = ""
    /\ isText = FALSE
    /\ ExtractIdle /\ NormIdle /\ DirIdle /\ SubIdle /\ ZipIdle
    /\ CleanIdle /\ HandlesIdle /\ AnalyzeIdle

NextText ==
    OpenSample \/ OpenSampleFail \/ ReadSample \/ ReadSampleFail \/ CheckSample

SpecText == InitText /\ [][NextText]_vars

(***************************************************************************)
(* ScanDirectory, one action per step of the function.                     *)
(***************************************************************************)

\* The loop over licenseFiles.
FindLicense ==
    /\ dirPc = "probe"
    /\ dirPc' = "walk"
    /\ licenseContent' = ProbeLicense(tree, 1, "")
    /\ UNCHANGED <<tree, visited, result, treeSeen, failedFiles, report, scanErr>>
    /\ UNCHANGED <<extractVars, normVars, textVars, subVars, zipVars,
                   cleanVars, handleVars, anVars>>

\* The entry the walk calls the callback on next.
Entry == tree[visited + 1]

\* The callback is handed an error: it returns it, Walk stops and returns
\* it, and ScanDirectory returns "" and an error.
VisitError ==
    /\ dirPc = "walk" /\ visited < Len(tree)
    /\ Entry.walkErr
    /\ visited' = visited + 1
    /\ dirPc' = "returned"
    /\ report' = ""
    /\ scanErr' = TRUE
    /\ UNCHANGED <<tree, licenseContent, result, treeSeen, failedFiles>>
    /\ UNCHANGED <<extractVars, normVars, textVars, subVars, zipVars,
                   cleanVars, handleVars, anVars>>

\* The callback on a directory, or on a file isTextFile rejects (it cannot
\* be opened, or its sample is not text): return nil.
VisitSkipped ==
    /\ dirPc = "walk" /\ visited < Len(tree)
    /\ ~Entry.walkErr
    /\ Entry.kind = "dir" \/ ~Entry.readable \/ ~TextOf[Entry.content]
    /\ visited' = visited + 1
    /\ UNCHANGED <<dirPc, tree, licenseContent, result, treeSeen, failedFiles,
                   report, scanErr>>
    /\ UNCHANGED <<extractVars, normVars, textVars, subVars, zipVars,
                   cleanVars, handleVars, anVars>>

\* VisitExtractError returning the error of the extraction to Walk.
VisitExtractAbort ==
    /\ dirPc = "walk" /\ visited < Len(tree)
    /\ ~Entry.walkErr
    /\ Entry.kind = "file" /\ Entry.readable /\ TextOf[Entry.content]
    /\ failedFiles' = failedFiles \cup {Entry.path}
    /\ visited' = visited + 1
    /\ dirPc' = "returned"
    /\ report' = ""
    /\ scanErr' = TRUE
    /\ UNCHANGED <<tree, licenseContent, result, treeSeen>>
    /\ UNCHANGED <<extractVars, normVars, textVars, subVars, zipVars,
                   cleanVars, handleVars, anVars>>

\* The callback on a text file whose extraction returns an error: the error
\* is printed and the callback returns nil.
VisitExtractError ==
    /\ dirPc = "walk" /\ visited < Len(tree)
    /\ ~Entry.walkErr
    /\ Entry.kind = "file" /\ Entry.readable /\ TextOf[Entry.content]
    /\ failedFiles' = failedFiles \cup {Entry.path}
    /\ visited' = visited + 1
    /\ UNCHANGED <<dirPc, tree, licenseContent, result, treeSeen, report, scanErr>>
    /\ UNCHANGED <<extractVars, normVars, textVars, subVars, zipVars,
                   cleanVars, handleVars, anVars>>

\* The callback on a text file: its notices are extracted and merged into
\* the result.
VisitFile ==
    /\ dirPc = "walk" /\ visited < Len(tree)
    /\ ~Entry.walkErr
    /\ Entry.kind = "file" /\ Entry.readable /\ TextOf[Entry.content]
    /\ \E acc \in {MergeFile([result |-> result, seenCopyrights |-> treeSeen],
                             ExtractedOf[Entry.content])} :
          /\ result' = acc.result
          /\ treeSeen' = acc.seenCopyrights
    /\ visited' = visited + 1
    /\ UNCHANGED <<dirPc, tree, licenseContent, failedFiles, report, scanErr>>
    /\ UNCHANGED <<extractVars, normVars, textVars, subVars, zipVars,
                   cleanVars, handleVars, anVars>>

\* Walk has returned nil: the license section is written behind the notices
\* and the result returned.
Finish ==
    /\ dirPc = "walk" /\ visited = Len(tree)
    /\ dirPc' = "returned"
    /\ result' = WithLicense(result, licenseContent)
    /\ report' = WithLicense(result, licenseContent)
    /\ UNCHANGED <<tree, licenseContent, visited, treeSeen, failedFiles, scanErr>>
    /\ UNCHANGED <<extractVars, normVars, textVars, subVars, zipVars,
                   cleanVars, handleVars, anVars>>

InitDir ==
    /\ dirPc = "probe"
    /\ tree \in Trees
    /\ licenseContent = ""
    /\ visited = 0
    /\ result = ""
    /\ treeSeen = {}
    /\ failedFiles = {}
    /\ report = ""
    /\ scanErr = FALSE
    /\ ExtractIdle /\ NormIdle /\ TextIdle /\ SubIdle /\ ZipIdle
    /\ CleanIdle /\ HandlesIdle /\ AnalyzeIdle

NextDir ==
    FindLicense \/ VisitError \/ VisitSkipped \/ VisitExtractError \/ VisitFile \/ Finish

SpecDir == InitDir /\ [][NextDir]_vars

(***************************************************************************)
(* ScanSubDirectories, one action per step of the function and per pass    *)
(* of its loop.                                                            *)
(***************************************************************************)

\* os.ReadDir succeeds.
ListDir ==
    /\ subPc = "list"
    /\ subPc' = "loop"
    /\ UNCHANGED <<children, outputPattern, prefixFile, subIdx, scanned,
                   written, writeFailed, subErr>>
    /\ UNCHANGED <<extractVars, normVars, textVars, dirVars, zipVars,
                   cleanVars, handleVars, anVars>>

\* os.ReadDir fails: return an error.
ListDirFail ==
    /\ subPc = "list"
    /\ subPc' = "returned"
    /\ subErr' = TRUE
    /\ UNCHANGED <<children, outputPattern, prefixFile, subIdx, scanned,
                   written, writeFailed>>
    /\ UNCHANGED <<extractVars, normVars, textVars, dirVars, zipVars,
                   cleanVars, handleVars, anVars>>

\* The entry the loop is at.
Child == children[subIdx + 1]

\* An entry that is not a directory: nothing is done for it.
ChildSkipped ==
    /\ subPc = "loop" /\ subIdx < Len(children)
    /\ ~Child.isDir
    /\ subIdx' = subIdx + 1
    /\ UNCHANGED <<subPc, children, outputPattern, prefixFile, scanned,
                   written, writeFailed, subErr>>
    /\ UNCHANGED <<extractVars, normVars, textVars, dirVars, zipVars,
                   cleanVars, handleVars, anVars>>

\* ChildScanFail going on with the next entry instead of returning.
ChildScanFailSkipped ==
    /\ subPc = "loop" /\ subIdx < Len(children)
    /\ Child.isDir
    /\ \E failing \in FailingSets : Child.scan[failing].err
    /\ scanned' = Append(scanned, Child.name)
    /\ subIdx' = subIdx + 1
    /\ UNCHANGED <<subPc, children, outputPattern, prefixFile, written,
                   writeFailed, subErr>>
    /\ UNCHANGED <<extractVars, normVars, textVars, dirVars, zipVars,
                   cleanVars, handleVars, anVars>>

\* ScanDirectory returns an error for the subdirectory: return an error.
ChildScanFail ==
    /\ subPc = "loop" /\ subIdx < Len(children)
    /\ Child.isDir
    /\ \E failing \in FailingSets : Child.scan[failing].err
    /\ scanned' = Append(scanned, Child.name)
    /\ subPc' = "returned"
    /\ subErr' = TRUE
    /\ UNCHANGED <<children, outputPattern, prefixFile, subIdx, written,
                   writeFailed>>
    /\ UNCHANGED <<extractVars, normVars, textVars, dirVars, zipVars,
                   cleanVars, handleVars, anVars>>

\* ChildWriteFail taking back the files written before the failure.
ChildWriteFailRollback ==
    /\ subPc = "loop" /\ subIdx < Len(children)
    /\ Child.isDir
    /\ \E failing \in FailingSets : ~Child.scan[failing].err
    /\ scanned' = Append(scanned, Child.name)
    /\ writeFailed' = writeFailed \cup {OutputFile(outputPattern, Child.name)}
    /\ written' = <<>>
    /\ subPc' = "returned"
    /\ subErr' = TRUE
    /\ UNCHANGED <<children, outputPattern, prefixFile, subIdx>>
    /\ UNCHANGED <<extractVars, normVars, textVars, dirVars, zipVars,
                   cleanVars, handleVars, anVars>>

\* The subdirectory is scanned and os.WriteFile fails: return an error.
ChildWriteFail ==
    /\ subPc = "loop" /\ subIdx < Len(children)
    /\ Child.isDir
    /\ \E failing \in FailingSets : ~Child.scan[failing].err
    /\ scanned' = Append(scanned, Child.name)
    /\ writeFailed' = writeFailed \cup {OutputFile(outputPattern, Child.name)}
    /\ subPc' = "returned"
    /\ subErr' = TRUE
    /\ UNCHANGED <<children, outputPattern, prefixFile, subIdx, written>>
    /\ UNCHANGED <<extractVars, normVars, textVars, dirVars, zipVars,
                   cleanVars, handleVars, anVars>>

\* ChildWritten with one seen set for the whole call: a notice that an
\* earlier subdirectory has given is left out of the reports behind it.
ChildWrittenSharedSeen ==
    /\ subPc = "loop" /\ subIdx < Len(children)
    /\ Child.isDir
    /\ \E failing \in FailingSets :
          /\ ~Child.scan[failing].err
          /\ LET start  == [result |-> "", seenCopyrights |-> {}, err |-> FALSE]
                 seen   == UNION {WalkFrom(children[j].entries, {}, 1,
                                           start).seenCopyrights :
                                  j \in 1..subIdx}
                 walked == WalkFrom(Child.entries, failing, 1,
                                    [start EXCEPT !.seenCopyrights = seen])
                 text   == WithLicense(walked.result,
                                       ProbeLicense(Child.entries, 1, ""))
             IN  written' = Append(written,
                     [path    |-> OutputFile(outputPattern, Child.name),
                      content |-> WithPrefix(prefixFile, Child.name, text),
                      child   |-> subIdx + 1,
                      failing |-> failing])
    /\ scanned' = Append(scanned, Child.name)
    /\ subIdx' = subIdx + 1
    /\ UNCHANGED <<subPc, children, outputPattern, prefixFile, writeFailed, subErr>>
    /\ UNCHANGED <<extractVars, normVars, textVars, dirVars, zipVars,
                   cleanVars, handleVars, anVars>>

\* The subdirectory is scanned and its report written, behind the prefix,
\* to its output file. The history keeps for each file the entry it was
\* written for and the files of it whose extraction failed.
ChildWritten ==
    /\ subPc = "loop" /\ subIdx < Len(children)
    /\ Child.isDir
    /\ \E failing \in FailingSets :
          /\ ~Child.scan[failing].err
          /\ written' = Append(written,
                 [path    |-> OutputFile(outputPattern, Child.name),
                  content |-> WithPrefix(prefixFile, Child.name,
                                  Child.scan[failing].report),
                  child   |-> subIdx + 1,
                  failing |-> failing])
    /\ scanned' = Append(scanned, Child.name)
    /\ subIdx' = subIdx + 1
    /\ UNCHANGED <<subPc, children, outputPattern, prefixFile, writeFailed, subErr>>
    /\ UNCHANGED <<extractVars, normVars, textVars, dirVars, zipVars,
                   cleanVars, handleVars, anVars>>

\* The loop is through: return nil.
SubDone ==
    /\ subPc = "loop" /\ subIdx = Len(children)
    /\ subPc' = "returned"
    /\ UNCHANGED <<children, outputPattern, prefixFile, subIdx, scanned,
                   written, writeFailed, subErr>>
    /\ UNCHANGED <<extractVars, normVars, textVars, dirVars, zipVars,
                   cleanVars, handleVars, anVars>>

InitSub ==
    /\ subPc = "list"
    /\ children \in RootListings
    /\ outputPattern \in OutputPatterns
    /\ prefixFile \in PrefixFiles
    /\ subIdx = 0
    /\ scanned = <<>>
    /\ written = <<>>
    /\ writeFailed = {}
    /\ subErr = FALSE
    /\ ExtractIdle /\ NormIdle /\ TextIdle /\ DirIdle /\ ZipIdle
    /\ CleanIdle /\ HandlesIdle /\ AnalyzeIdle

NextSub ==
    \/ ListDir \/ ListDirFail \/ ChildSkipped \/ ChildScanFail
    \/ ChildWriteFail \/ ChildWritten \/ SubDone

SpecSub == InitSub /\ [][NextSub]_vars

(***************************************************************************)
(* extractZip, one action per step of the function and per pass of its     *)
(* loop. ioFailed keeps every call that failed, with the entry it was for. *)
(***************************************************************************)

\* zip.OpenReader succeeds.
OpenReader ==
    /\ zipPc = "open"
    /\ zipPc' = "loop"
    /\ UNCHANGED <<archive, zipIdx, extracted, ioFailed, zipErr>>
    /\ UNCHANGED <<extractVars, normVars, textVars, dirVars, subVars,
                   cleanVars, handleVars, anVars>>

\* zip.OpenReader fails: return the error.
OpenReaderFail ==
    /\ zipPc = "open"
    /\ zipPc' = "returned"
    /\ ioFailed' = ioFailed \cup {[entry |-> 0, call |-> "OpenReader"]}
    /\ zipErr' = TRUE
    /\ UNCHANGED <<archive, zipIdx, extracted>>
    /\ UNCHANGED <<extractVars, normVars, textVars, dirVars, subVars,
                   cleanVars, handleVars, anVars>>

\* The entry the loop is at, and the path it is extracted to.
ZipFile == archive[zipIdx + 1]

ZipPath == JoinPath(destDir, ZipFile.name)

\* A directory entry: os.MkdirAll is called and what it returns is not
\* looked at; the loop goes on with the next entry.
ExtractDirEntry ==
    /\ zipPc = "loop" /\ zipIdx < Len(archive)
    /\ ZipFile.isDir
    /\ \E ok \in BOOLEAN :
          IF ok
          THEN /\ extracted' = extracted \cup {ZipPath}
               /\ UNCHANGED ioFailed
          ELSE /\ ioFailed' = ioFailed \cup
                       {[entry |-> zipIdx + 1, call |-> "MkdirAll"]}
               /\ UNCHANGED extracted
    /\ zipIdx' = zipIdx + 1
    /\ UNCHANGED <<zipPc, archive, zipErr>>
    /\ UNCHANGED <<extractVars, normVars, textVars, dirVars, subVars,
                   cleanVars, handleVars, anVars>>

\* A file entry, every call succeeding: the parent directory and the file
\* are there.
ExtractFileEntry ==
    /\ zipPc = "loop" /\ zipIdx < Len(archive)
    /\ ~ZipFile.isDir
    /\ extracted' = extracted \cup {DirOf(ZipPath), ZipPath}
    /\ zipIdx' = zipIdx + 1
    /\ UNCHANGED <<zipPc, archive, ioFailed, zipErr>>
    /\ UNCHANGED <<extractVars, normVars, textVars, dirVars, subVars,
                   cleanVars, handleVars, anVars>>

\* A file entry on which the k-th call fails (the parent's os.MkdirAll,
\* os.OpenFile, file.Open, io.Copy): the error is returned; what the calls
\* before it have created stays.
ExtractFileFail ==
    /\ zipPc = "loop" /\ zipIdx < Len(archive)
    /\ ~ZipFile.isDir
    /\ \E k \in 1..Len(FileCalls) :
          /\ ioFailed' = ioFailed \cup
                 {[entry |-> zipIdx + 1, call |-> FileCalls[k]]}
          /\ extracted' = extracted
                 \cup (IF k > 1 THEN {DirOf(ZipPath)} ELSE {})
                 \cup (IF k > 2 THEN {ZipPath} ELSE {})
    /\ zipPc' = "returned"
    /\ zipErr' = TRUE
    /\ UNCHANGED <<archive, zipIdx>>
    /\ UNCHANGED <<extractVars, normVars, textVars, dirVars, subVars,
                   cleanVars, handleVars, anVars>>

\* The loop is through: return nil.
ZipDone ==
    /\ zipPc = "loop" /\ zipIdx = Len(archive)
    /\ zipPc' = "returned"
    /\ UNCHANGED <<archive, zipIdx, extracted, ioFailed, zipErr>>
    /\ UNCHANGED <<extractVars, normVars, textVars, dirVars, subVars,
                   cleanVars, handleVars, anVars>>

InitZip ==
    /\ zipPc = "open"
    /\ archive \in Archives
    /\ zipIdx = 0
    /\ extracted = {}
    /\ ioFailed = {}
    /\ zipErr = FALSE
    /\ ExtractIdle /\ NormIdle /\ TextIdle /\ DirIdle /\ SubIdle
    /\ CleanIdle /\ HandlesIdle /\ AnalyzeIdle

NextZip ==
    \/ OpenReader \/ OpenReaderFail \/ ExtractDirEntry \/ ExtractFileEntry
    \/ ExtractFileFail \/ ZipDone

SpecZip == InitZip /\ [][NextZip]_vars

(***************************************************************************)
(* The file handles of a call of ScanDirectory, ScanSubDirectories or      *)
(* extractZip: one action per open and per return that closes. os.ReadDir, *)
(* os.ReadFile and os.WriteFile open and close within the call to them.    *)
(***************************************************************************)

\* The calls looked at: ScanDirectory on a tree, ScanSubDirectories on up to
\* MaxChildren subdirectories, extractZip on an archive.
HandleCalls ==
    {[fn |-> "ScanDirectory", dirs |-> <<t>>, archive |-> <<>>] : t \in Trees}
    \cup {[fn |-> "ScanSubDirectories", dirs |-> d, archive |-> <<>>] :
             d \in UNION {[1..n -> SubTrees] : n \in 0..MaxChildren}}
    \cup {[fn |-> "extractZip", dirs |-> <<>>, archive |-> a] : a \in Archives}

Handle(path, by) == [path |-> path, by |-> by]

\* The directory the walk is in, and the entry the callback is called on.
HDir == hDirs[hChild + 1]

HEntry == HDir[hIdx + 1]

\* ScanDirectory or ScanSubDirectories is entered; the walk of the first
\* directory, if there is one, begins.
HScanStart ==
    /\ hPc = "call" /\ hFn \in {"ScanDirectory", "ScanSubDirectories"}
    /\ hPc' = IF hDirs = <<>> THEN "returned" ELSE "walk"
    /\ UNCHANGED <<hFn, hDirs, hArchive, hChild, hIdx, handles, closed, hErr>>
    /\ UNCHANGED <<extractVars, normVars, textVars, dirVars, subVars, zipVars,
                   cleanVars, anVars>>

\* The callback is handed an error: the walk and the call return it.
HWalkError ==
    /\ hPc = "walk" /\ hIdx < Len(HDir)
    /\ HEntry.walkErr
    /\ hPc' = "returned"
    /\ hErr' = TRUE
    /\ UNCHANGED <<hFn, hDirs, hArchive, hChild, hIdx, handles, closed>>
    /\ UNCHANGED <<extractVars, normVars, textVars, dirVars, subVars, zipVars,
                   cleanVars, anVars>>

\* The callback on a directory.
HVisitDir ==
    /\ hPc = "walk" /\ hIdx < Len(HDir)
    /\ ~HEntry.walkErr /\ HEntry.kind = "dir"
    /\ hIdx' = hIdx + 1
    /\ UNCHANGED <<hFn, hDirs, hArchive, hChild, hPc, handles, closed, hErr>>
    /\ UNCHANGED <<extractVars, normVars, textVars, dirVars, subVars, zipVars,
                   cleanVars, anVars>>

\* isTextFile: os.Open fails, it returns false.
HTextOpenFail ==
    /\ hPc = "walk" /\ hIdx < Len(HDir)
    /\ ~HEntry.walkErr /\ HEntry.kind = "file" /\ ~HEntry.readable
    /\ hIdx' = hIdx + 1
    /\ UNCHANGED <<hFn, hDirs, hArchive, hChild, hPc, handles, closed, hErr>>
    /\ UNCHANGED <<extractVars, normVars, textVars, dirVars, subVars, zipVars,
                   cleanVars, anVars>>

\* isTextFile: os.Open succeeds, and the close is deferred.
HTextOpen ==
    /\ hPc = "walk" /\ hIdx < Len(HDir)
    /\ ~HEntry.walkErr /\ HEntry.kind = "file" /\ HEntry.readable
    /\ handles' = handles \cup {Handle(HEntry.path, "isTextFile")}
    /\ hPc' = "text"
    /\ UNCHANGED <<hFn, hDirs, hArchive, hChild, hIdx, closed, hErr>>
    /\ UNCHANGED <<extractVars, normVars, textVars, dirVars, subVars, zipVars,
                   cleanVars, anVars>>

\* HTextReturn without the deferred close.
HTextReturnLeak ==
    /\ hPc = "text"
    /\ \E readOk \in BOOLEAN :
          IF readOk /\ TextOf[HEntry.content]
          THEN hPc' = "callExtract" /\ UNCHANGED hIdx
          ELSE hPc' = "walk" /\ hIdx' = hIdx + 1
    /\ UNCHANGED <<hFn, hDirs, hArchive, hChild, handles, closed, hErr>>
    /\ UNCHANGED <<extractVars, normVars, textVars, dirVars, subVars, zipVars,
                   cleanVars, anVars>>

\* isTextFile returns, false because file.Read failed or with its verdict
\* on the sample: the deferred close runs. On true the callback goes on to
\* extractCopyright.
HTextReturn ==
    /\ hPc = "text"
    /\ handles' = handles \ {Handle(HEntry.path, "isTextFile")}
    /\ closed' = Append(closed, Handle(HEntry.path, "isTextFile"))
    /\ \E readOk \in BOOLEAN :
          IF readOk /\ TextOf[HEntry.content]
          THEN hPc' = "callExtract" /\ UNCHANGED hIdx
          ELSE hPc' = "walk" /\ hIdx' = hIdx + 1
    /\ UNCHANGED <<hFn, hDirs, hArchive, hChild, hErr>>
    /\ UNCHANGED <<extractVars, normVars, textVars, dirVars, subVars, zipVars,
                   cleanVars, anVars>>

\* extractCopyright: os.Open fails, it returns the error, which the callback
\* prints.
HExtractOpenFail ==
    /\ hPc = "callExtract"
    /\ hPc' = "walk"
    /\ hIdx' = hIdx + 1
    /\ UNCHANGED <<hFn, hDirs, hArchive, hChild, handles, closed, hErr>>
    /\ UNCHANGED <<extractVars, normVars, textVars, dirVars, subVars, zipVars,
                   cleanVars, anVars>>

\* extractCopyright: os.Open succeeds, and the close is deferred.
HExtractOpen ==
    /\ hPc = "callExtract"
    /\ handles' = handles \cup {Handle(HEntry.path, "extractCopyright")}
    /\ hPc' = "extract"
    /\ UNCHANGED <<hFn, hDirs, hArchive, hChild, hIdx, closed, hErr>>
    /\ UNCHANGED <<extractVars, normVars, textVars, dirVars, subVars, zipVars,
                   cleanVars, anVars>>

\* extractCopyright returns, at the end of the file or with a read error:
\* the deferred close runs.
HExtractReturn ==
    /\ hPc = "extract"
    /\ handles' = handles \ {Handle(HEntry.path, "extractCopyright")}
    /\ closed' = Append(closed, Handle(HEntry.path, "extractCopyright"))
    /\ hPc' = "walk"
    /\ hIdx' = hIdx + 1
    /\ UNCHANGED <<hFn, hDirs, hArchive, hChild, hErr>>
    /\ UNCHANGED <<extractVars, normVars, textVars, dirVars, subVars, zipVars,
                   cleanVars, anVars>>

\* The walk of a directory is through. ScanDirectory returns its report;
\* ScanSubDirectories writes it with os.WriteFile and returns an error if
\* that fails, goes on with the next subdirectory if there is one, and
\* returns nil behind the last.
HDirDone ==
    /\ hPc = "walk" /\ hIdx = Len(HDir)
    /\ hChild' = hChild + 1
    /\ hIdx' = 0
    /\ \E writeOk \in BOOLEAN :
          /\ hFn = "ScanDirectory" => writeOk
          /\ hErr' = ~writeOk
          /\ hPc' = IF writeOk /\ hChild + 1 < Len(hDirs) THEN "walk"
                    ELSE "returned"
    /\ UNCHANGED <<hFn, hDirs, hArchive, handles, closed>>
    /\ UNCHANGED <<extractVars, normVars, textVars, dirVars, subVars, zipVars,
                   cleanVars, anVars>>

\* The handle of the archive, and the entry the loop of extractZip is at.
ReaderHandle == Handle("archive.zip", "zip.OpenReader")

HZipFile == hArchive[hIdx + 1]

\* The handles of the file written and of the entry read.
OutHandle == Handle(JoinPath(destDir, HZipFile.name), "os.OpenFile")

EntryHandle == Handle(HZipFile.name, "file.Open")

\* zip.OpenReader fails: extractZip returns the error.
HZipOpenFail ==
    /\ hPc = "call" /\ hFn = "extractZip"
    /\ hPc' = "returned"
    /\ hErr' = TRUE
    /\ UNCHANGED <<hFn, hDirs, hArchive, hChild, hIdx, handles, closed>>
    /\ UNCHANGED <<extractVars, normVars, textVars, dirVars, subVars, zipVars,
                   cleanVars, anVars>>

\* zip.OpenReader succeeds, and reader.Close is deferred.
HZipOpen ==
    /\ hPc = "call" /\ hFn = "extractZip"
    /\ handles' = handles \cup {ReaderHandle}
    /\ hPc' = "loop"
    /\ UNCHANGED <<hFn, hDirs, hArchive, hChild, hIdx, closed, hErr>>
    /\ UNCHANGED <<extractVars, normVars, textVars, dirVars, subVars, zipVars,
                   cleanVars, anVars>>

\* A directory entry: os.MkdirAll, and on with the next entry.
HZipDir ==
    /\ hPc = "loop" /\ hIdx < Len(hArchive)
    /\ HZipFile.isDir
    /\ hIdx' = hIdx + 1
    /\ UNCHANGED <<hFn, hDirs, hArchive, hChild, hPc, handles, closed, hErr>>
    /\ UNCHANGED <<extractVars, normVars, textVars, dirVars, subVars, zipVars,
                   cleanVars, anVars>>

\* A file entry for which os.MkdirAll of the parent or os.OpenFile fails:
\* the error is returned, and the deferred reader.Close runs.
HZipCreateFail ==
    /\ hPc = "loop" /\ hIdx < Len(hArchive)
    /\ ~HZipFile.isDir
    /\ handles' = handles \ {ReaderHandle}
    /\ closed' = Append(closed, ReaderHandle)
    /\ hPc' = "returned"
    /\ hErr' = TRUE
    /\ UNCHANGED <<hFn, hDirs, hArchive, hChild, hIdx>>
    /\ UNCHANGED <<extractVars, normVars, textVars, dirVars, subVars, zipVars,
                   cleanVars, anVars>>

\* A file entry: os.OpenFile succeeds.
HZipOpenFile ==
    /\ hPc = "loop" /\ hIdx < Len(hArchive)
    /\ ~HZipFile.isDir
    /\ handles' = handles \cup {OutHandle}
    /\ hPc' = "created"
    /\ UNCHANGED <<hFn, hDirs, hArchive, hChild, hIdx, closed, hErr>>
    /\ UNCHANGED <<extractVars, normVars, textVars, dirVars, subVars, zipVars,
                   cleanVars, anVars>>

\* file.Open fails: outFile is closed and the error returned; the deferred
\* reader.Close runs.
HZipEntryOpenFail ==
    /\ hPc = "created"
    /\ handles' = handles \ {OutHandle, ReaderHandle}
    /\ closed' = closed \o <<OutHandle, ReaderHandle>>
    /\ hPc' = "returned"
    /\ hErr' = TRUE
    /\ UNCHANGED <<hFn, hDirs, hArchive, hChild, hIdx>>
    /\ UNCHANGED <<extractVars, normVars, textVars, dirVars, subVars, zipVars,
                   cleanVars, anVars>>

\* file.Open succeeds.
HZipEntryOpen ==
    /\ hPc = "created"
    /\ handles' = handles \cup {EntryHandle}
    /\ hPc' = "copy"
    /\ UNCHANGED <<hFn, hDirs, hArchive, hChild, hIdx, closed, hErr>>
    /\ UNCHANGED <<extractVars, normVars, textVars, dirVars, subVars, zipVars,
                   cleanVars, anVars>>

\* io.Copy returns; outFile and rc are closed before its error is looked at.
\* On an error it is returned and the deferred reader.Close runs.
HZipCopy ==
    /\ hPc = "copy"
    /\ \E ok \in BOOLEAN :
          IF ok
          THEN /\ handles' = handles \ {OutHandle, EntryHandle}
               /\ closed' = closed \o <<OutHandle, EntryHandle>>
               /\ hPc' = "loop"
               /\ hIdx' = hIdx + 1
               /\ UNCHANGED hErr
          ELSE /\ handles' = handles \ {OutHandle, EntryHandle, ReaderHandle}
               /\ closed' = closed \o <<OutHandle, EntryHandle, ReaderHandle>>
               /\ hPc' = "returned"
               /\ hErr' = TRUE
               /\ UNCHANGED hIdx
    /\ UNCHANGED <<hFn, hDirs, hArchive, hChild>>
    /\ UNCHANGED <<extractVars, normVars, textVars, dirVars, subVars, zipVars,
                   cleanVars, anVars>>

\* The loop is through: return nil, and the deferred reader.Close runs.
HZipDone ==
    /\ hPc = "loop" /\ hIdx = Len(hArchive)
    /\ handles' = handles \ {ReaderHandle}
    /\ closed' = Append(closed, ReaderHandle)
    /\ hPc' = "returned"
    /\ UNCHANGED <<hFn, hDirs, hArchive, hChild, hIdx, hErr>>
    /\ UNCHANGED <<extractVars, normVars, textVars, dirVars, subVars, zipVars,
                   cleanVars, anVars>>

InitHandles ==
    /\ \E c \in HandleCalls :
          /\ hFn = c.fn
          /\ hDirs = c.dirs
          /\ hArchive = c.archive
    /\ hChild = 0
    /\ hIdx = 0
    /\ hPc = "call"
    /\ handles = {}
    /\ closed = <<>>
    /\ hErr = FALSE
    /\ ExtractIdle /\ NormIdle /\ TextIdle /\ DirIdle /\ SubIdle /\ ZipIdle
    /\ CleanIdle /\ AnalyzeIdle

NextHandles ==
    \/ HScanStart \/ HWalkError \/ HVisitDir \/ HTextOpenFail \/ HTextOpen
    \/ HTextReturn \/ HExtractOpenFail \/ HExtractOpen \/ HExtractReturn
    \/ HDirDone
    \/ HZipOpenFail \/ HZipOpen \/ HZipDir \/ HZipCreateFail \/ HZipOpenFile
    \/ HZipEntryOpenFail \/ HZipEntryOpen \/ HZipCopy \/ HZipDone

SpecHandles == InitHandles /\ [][NextHandles]_vars

(***************************************************************************)
(* AnalyzeZipFile and AnalyzeCopyright, one action per step; the steps of  *)
(* extractZip are those of its own actions, run on the staging directory.  *)
(***************************************************************************)

\* formatAnalysisResult
formatAnalysisResult(copyrightInfo, analysis) ==
    "Copyright Analysis Result\n" \o "=======================\n\n"
        \o "Original Copyright Information:\n"
        \o "-----------------------------\n"
        \o copyrightInfo \o "\n\n"
        \o "AI Analysis:\n" \o "-----------\n"
        \o analysis

\* What ScanDirectory may return for the extracted tree without an error.
AnReports == {"", "Copyright (c) 2020 Acme Corp.\n"}

\* What the client may answer: an error, a nil response, one without
\* content (without messages), one whose content is text, and one whose
\* content is not.
AnResponses == {"error", "nil", "empty", "text", "nontext"}

AnalysisText == "Holder: Acme Corp. (2020)"

\* The call each function makes on the client.
ServiceCall(fn) == IF fn = "AnalyzeCopyright" THEN "CallTool" ELSE "GetPrompt"

\* os.MkdirTemp fails: return an error; nothing is deferred yet.
AnStageFail ==
    /\ anPc = "stage"
    /\ anCalls' = Append(anCalls, "MkdirTemp")
    /\ anPc' = "returned"
    /\ anErr' = "failed to create temp directory"
    /\ UNCHANGED <<anFn, anStaged, anInfo, anOut>>
    /\ UNCHANGED <<extractVars, normVars, textVars, dirVars, subVars, zipVars,
                   cleanVars, handleVars>>

\* os.MkdirTemp succeeds, and os.RemoveAll(tempDir) is deferred.
AnStage ==
    /\ anPc = "stage"
    /\ anCalls' = Append(anCalls, "MkdirTemp")
    /\ anStaged' = TRUE
    /\ anPc' = "extract"
    /\ UNCHANGED <<anFn, anInfo, anOut, anErr>>
    /\ UNCHANGED <<extractVars, normVars, textVars, dirVars, subVars, zipVars,
                   cleanVars, handleVars>>

\* extractZip is called.
AnCallExtract ==
    /\ anPc = "extract"
    /\ anCalls' = Append(anCalls, "extractZip")
    /\ anPc' = "extracting"
    /\ UNCHANGED <<anFn, anStaged, anInfo, anOut, anErr>>
    /\ UNCHANGED <<extractVars, normVars, textVars, dirVars, subVars, zipVars,
                   cleanVars, handleVars>>

\* A step of extractZip.
AnExtractStep ==
    /\ anPc = "extracting"
    /\ \/ OpenReader \/ OpenReaderFail \/ ExtractDirEntry \/ ExtractFileEntry
       \/ ExtractFileFail \/ ZipDone

\* AnExtractFailed going on to the scan.
AnExtractFailedGoesOn ==
    /\ anPc = "extracting"
    /\ zipPc = "returned" /\ zipErr
    /\ anPc' = "scan"
    /\ UNCHANGED <<anFn, anCalls, anStaged, anInfo, anOut, anErr>>
    /\ UNCHANGED <<extractVars, normVars, textVars, dirVars, subVars, zipVars,
                   cleanVars, handleVars>>

\* extractZip has returned an error: return an error; the deferred
\* os.RemoveAll runs.
AnExtractFailed ==
    /\ anPc = "extracting"
    /\ zipPc = "returned" /\ zipErr
    /\ anCalls' = Append(anCalls, "RemoveAll")
    /\ anStaged' = FALSE
    /\ anPc' = "returned"
    /\ anErr' = "failed to extract zip file"
    /\ UNCHANGED <<anFn, anInfo, anOut>>
    /\ UNCHANGED <<extractVars, normVars, textVars, dirVars, subVars, zipVars,
                   cleanVars, handleVars>>

\* extractZip has returned nil.
AnExtracted ==
    /\ anPc = "extracting"
    /\ zipPc = "returned" /\ ~zipErr
    /\ anPc' = "scan"
    /\ UNCHANGED <<anFn, anCalls, anStaged, anInfo, anOut, anErr>>
    /\ UNCHANGED <<extractVars, normVars, textVars, dirVars, subVars, zipVars,
                   cleanVars, handleVars>>

\* ScanDirectory returns an error: return an error; the deferred
\* os.RemoveAll runs.
AnScanFail ==
    /\ anPc = "scan"
    /\ anCalls' = anCalls \o <<"ScanDirectory", "RemoveAll">>
    /\ anStaged' = FALSE
    /\ anPc' = "returned"
    /\ anErr' = "failed to scan directory"
    /\ UNCHANGED <<anFn, anInfo, anOut>>
    /\ UNCHANGED <<extractVars, normVars, textVars, dirVars, subVars, zipVars,
                   cleanVars, handleVars>>

\* ScanDirectory returns the report.
AnScan ==
    /\ anPc = "scan"
    /\ anCalls' = Append(anCalls, "ScanDirectory")
    /\ anInfo' \in AnReports
    /\ anPc' = "service"
    /\ UNCHANGED <<anFn, anStaged, anOut, anErr>>
    /\ UNCHANGED <<extractVars, normVars, textVars, dirVars, subVars, zipVars,
                   cleanVars, handleVars>>

\* The responses on which the function dereferences a nil pointer: a nil
\* response in AnalyzeZipFile, a content without text in AnalyzeCopyright.
Panics(fn, resp) ==
    \/ fn = "AnalyzeZipFile" /\ resp = "nil"
    \/ fn = "AnalyzeCopyright" /\ resp = "nontext"

\* What the function returns for a response that came without an error.
AnswerOf(fn, copyrightInfo, resp) ==
    IF fn = "AnalyzeCopyright"
    THEN IF resp = "text"
         THEN [out |-> AnalysisText, err |-> ""]
         ELSE [out |-> "", err |-> "no analysis result received from MCP"]
    ELSE [out |-> formatAnalysisResult(copyrightInfo,
                      IF resp = "text" THEN AnalysisText ELSE ""),
          err |-> ""]

\* The client returns an error: return an error; the deferred os.RemoveAll
\* runs.
AnServiceFail ==
    /\ anPc = "service"
    /\ anCalls' = anCalls \o <<ServiceCall(anFn), "RemoveAll">>
    /\ anStaged' = FALSE
    /\ anPc' = "returned"
    /\ anErr' = IF anFn = "AnalyzeCopyright"
                THEN "failed to analyze content with MCP"
                ELSE "failed to get MCP analysis"
    /\ UNCHANGED <<anFn, anInfo, anOut>>
    /\ UNCHANGED <<extractVars, normVars, textVars, dirVars, subVars, zipVars,
                   cleanVars, handleVars>>

\* The client returns a response that the function then reads through a nil
\* pointer: the goroutine panics, and the deferred os.RemoveAll runs.
AnServicePanic ==
    /\ anPc = "service"
    /\ \E resp \in AnResponses \ {"error"} : Panics(anFn, resp)
    /\ anCalls' = anCalls \o <<ServiceCall(anFn), "RemoveAll">>
    /\ anStaged' = FALSE
    /\ anPc' = "panicked"
    /\ UNCHANGED <<anFn, anInfo, anOut, anErr>>
    /\ UNCHANGED <<extractVars, normVars, textVars, dirVars, subVars, zipVars,
                   cleanVars, handleVars>>

\* The client returns a response: the analysis, or an error when
\* AnalyzeCopyright finds none in it, is returned; the deferred os.RemoveAll
\* runs.
AnServiceAnswer ==
    /\ anPc = "service"
    /\ \E resp \in AnResponses \ {"error"} :
          /\ ~Panics(anFn, resp)
          /\ anOut' = AnswerOf(anFn, anInfo, resp).out
          /\ anErr' = AnswerOf(anFn, anInfo, resp).err
    /\ anCalls' = anCalls \o <<ServiceCall(anFn), "RemoveAll">>
    /\ anStaged' = FALSE
    /\ anPc' = "returned"
    /\ UNCHANGED <<anFn, anInfo>>
    /\ UNCHANGED <<extractVars, normVars, textVars, dirVars, subVars, zipVars,
                   cleanVars, handleVars>>

InitAnalyze ==
    /\ anFn \in {"AnalyzeZipFile", "AnalyzeCopyright"}
    /\ anPc = "stage"
    /\ anCalls = <<>>
    /\ anStaged = FALSE
    /\ anInfo = ""
    /\ anOut = ""
    /\ anErr = ""
    /\ zipPc = "open"
    /\ archive \in Archives
    /\ zipIdx = 0
    /\ extracted = {}
    /\ ioFailed = {}
    /\ zipErr = FALSE
    /\ ExtractIdle /\ NormIdle /\ TextIdle /\ DirIdle /\ SubIdle
    /\ CleanIdle /\ HandlesIdle

NextAnalyze ==
    \/ AnStageFail \/ AnStage \/ AnCallExtract \/ AnExtractStep
    \/ AnExtractFailed \/ AnExtracted \/ AnScanFail \/ AnScan
    \/ AnServiceFail \/ AnServicePanic \/ AnServiceAnswer

SpecAnalyze == InitAnalyze /\ [][NextAnalyze]_vars

(***************************************************************************)
(* Properties of extractCopyright.                                         *)
(***************************************************************************)

\* The notices an output string holds: its lines, the empty rest after the
\* last newline left out.
NoticesOf(out) == SelectSeq(Split(out, "\n"), LAMBDA c : c # "")

\* The elements of a sequence of notices whose key no earlier element has.
RECURSIVE FirstOfEachKey(_, _)
FirstOfEachKey(notices, keys) ==
    IF notices = <<>> THEN <<>>
    ELSE IF normalizeForComparison(Head(notices)) \in keys
    THEN FirstOfEachKey(Tail(notices), keys)
    ELSE <<Head(notices)>>
         \o FirstOfEachKey(Tail(notices),
                           keys \cup {normalizeForComparison(Head(notices))})

DistinctKeys(notices) ==
    \A i, j \in 1..Len(notices) :
        i # j => normalizeForComparison(notices[i]) # normalizeForComparison(notices[j])

\* A step of the loop body (ReadLine), as opposed to a failed open or read.
LoopStep == nRead' = nRead + 1

\* C2: no two notices in the output of extractCopyright have the same
\* NormalizedKey, at any moment and in what is returned; and whenever the
\* output grows, it grows by one cleaned notice whose key was not in the
\* per-file SeenSet and is in it after the same step.
C2_DistinctKeysPerFile ==
    /\ [](DistinctKeys(NoticesOf(copyright)) /\ DistinctKeys(NoticesOf(extractOut)))
    /\ [][copyright' # copyright =>
            /\ Len(flushed') = Len(flushed) + 1
            /\ LET f == flushed'[Len(flushed')]
                   k == normalizeForComparison(f.notice)
               IN  /\ copyright' = copyright \o f.notice \o "\n"
                   /\ k \notin seenCopyrights
                   /\ seenCopyrights' = seenCopyrights \cup {k}]_vars

\* C2 witness: a second buffer with the key of an earlier one was flushed and
\* not written out.
C2_Witness ==
    /\ Len(flushed) = 2
    /\ flushed[1].emitted /\ ~flushed[2].emitted
    /\ Len(NoticesOf(copyright)) = 1

\* C3: the output holds, in the order of their flushes, the cleaned text of
\* the first buffer flushed for each NormalizedKey, each once, and nothing
\* of the later buffers with that key; that is also what a call that ends
\* without an error returns.
C3_FirstSeenOnceInOrder ==
    /\ NoticesOf(copyright)
         = FirstOfEachKey([i \in 1..Len(flushed) |-> flushed[i].notice], {})
    /\ (pc = "returned" /\ ~extractErr => extractOut = copyright)

\* C3 witness: `Copyright (c) 2020 Acme Corp.`, a blank line and
\* `copyright 2020 ACME CORP` were read, and the first text alone is returned.
C3_Witness ==
    /\ pc = "returned" /\ ~extractErr
    /\ Len(flushed) = 2
    /\ flushed[1].notice = "Copyright (c) 2020 Acme Corp."
    /\ flushed[2].notice = "copyright 2020 ACME CORP"
    /\ extractOut = "Copyright (c) 2020 Acme Corp.\n"

\* C5: a blank line read while Collecting flushes the buffer (cleaned,
\* written out if its key is unseen), empties it and leaves the extractor
\* Idle, so nothing read later is joined to the notice before the blank line.
C5_BlankLineFlushes ==
    [][LoopStep /\ TrimSpace(line') = "" /\ isCollectingCopyright =>
         /\ ~isCollectingCopyright'
         /\ currentCopyright' = ""
         /\ Len(flushed') = Len(flushed) + 1
         /\ LET f == flushed'[Len(flushed')]
                k == normalizeForComparison(cleanLine(currentCopyright))
            IN  /\ f.buffer = currentCopyright
                /\ f.notice = cleanLine(currentCopyright)
                /\ copyright' = IF k \in seenCopyrights THEN copyright
                                ELSE copyright \o cleanLine(currentCopyright) \o "\n"]_vars

\* C5 witness: the second chunk read was blank and flushed the first line.
C5_Witness ==
    /\ nRead = 2
    /\ TrimSpace(line) = ""
    /\ Len(flushed) = 1
    /\ ~isCollectingCopyright /\ currentCopyright = ""
    /\ copyright # ""

\* A suppression signal stands in the line, whatever else does.
HoldsSuppressionSignal(l) ==
    \E sig \in SuppressionSignals : Contains(ToLower(TrimSpace(l)), sig)

\* A copyright word stands in the line.
HoldsCopyrightWord(l) ==
    \/ Contains(ToLower(l), "copyright")
    \/ Contains(ToLower(l), "(c)")
    \/ Contains(l, "©")

\* C6: a line with a suppression signal is dropped even if it holds a
\* copyright word: after it the extractor is Idle with an empty buffer, and
\* the output has grown by nothing but the notice of the buffer collected
\* before the line, if there was one.
C6_SuppressedLineDiscarded ==
    [][LoopStep /\ HoldsSuppressionSignal(line') =>
         /\ ~isCollectingCopyright'
         /\ currentCopyright' = ""
         /\ IF isCollectingCopyright
            THEN /\ Len(flushed') = Len(flushed) + 1
                 /\ flushed'[Len(flushed')].buffer = currentCopyright
                 /\ copyright' \in {copyright,
                                    copyright \o cleanLine(currentCopyright) \o "\n"}
            ELSE /\ flushed' = flushed
                 /\ copyright' = copyright]_vars

\* C6 witness: `func Copyright() string {` was read while Collecting.
C6_Witness ==
    /\ nRead = 2
    /\ TrimSpace(line) = "func Copyright() string {"
    /\ HoldsCopyrightWord(line)
    /\ Len(flushed) = 1
    /\ ~isCollectingCopyright /\ currentCopyright = ""

\* C7 (as claimed): the buffer made of `// Copyright 2019-2021` and
\* `// Example Inc. All rights reserved.` is flushed as the notice
\* `Copyright 2019-2021 Example Inc. All rights reserved.`
C7_TwoLineNoticeKeepsText ==
    \A i \in 1..Len(flushed) :
        flushed[i].buffer = "// Copyright 2019-2021 // Example Inc. All rights reserved."
        => flushed[i].notice = "Copyright 2019-2021 Example Inc. All rights reserved."

\* C8: read while Idle, a line that is not blank, holds no suppression
\* signal and no exclusion phrase, and holds `copyright`, `(c)` in either
\* case or the copyright sign starts a notice: the extractor is Collecting
\* and the buffer is that line, trimmed. A line without any copyright word
\* read while Idle changes neither state, buffer, output nor SeenSet.
C8_SignalLineStartsNotice ==
    [][LoopStep /\ ~isCollectingCopyright =>
         /\ ( /\ TrimSpace(line') # ""
              /\ ~HoldsSuppressionSignal(line')
              /\ ~\E ph \in ExclusionPhrases : Contains(ToLower(line'), ph)
              /\ HoldsCopyrightWord(line')
              => isCollectingCopyright' /\ currentCopyright' = TrimSpace(line') )
         /\ ( ~HoldsCopyrightWord(line')
              => UNCHANGED <<isCollectingCopyright, currentCopyright, copyright,
                             seenCopyrights, flushed>> )]_vars

\* C8 witness: a line whose only copyright word is the upper-case `(C)` was
\* read first and is being collected.
C8_Witness ==
    /\ nRead = 1
    /\ isCollectingCopyright
    /\ currentCopyright = "* (C) 2022 Open Source Project"
    /\ ~Contains(ToLower(line), "copyright") /\ ~Contains(line, "(c)")

(***************************************************************************)
(* Properties of normalizeForComparison.                                   *)
(***************************************************************************)

\* C4: normalizeForComparison is idempotent: applied to its own result it
\* returns that result.
C4_NormalizeIdempotent ==
    Len(normKeys) = 2 => normKeys[2] = normKeys[1]

\* C4 witness: an argument with a stop word, a year range and capitals has
\* been normalized twice.
C4_Witness ==
    /\ normIn = "Copyright 2019-2021 ACME"
    /\ normKeys = <<"acme", "acme">>

(***************************************************************************)
(* Properties of isTextFile.                                               *)
(***************************************************************************)

\* C9: isTextFile returns false exactly when the file could not be opened or
\* read, or one of its first 512 bytes is zero or below 32 and not newline,
\* carriage return or tab; so an empty file is text, and no byte behind the
\* first 512 has a say.
C9_TextIffSampleClean ==
    textPc = "returned" =>
        (isText <=>
            /\ textErr = ""
            /\ \A i \in 1..Len(fileBytes) :
                  i <= 512 =>
                     /\ fileBytes[i] # 0
                     /\ (fileBytes[i] < 32 => fileBytes[i] \in {10, 13, 9}))

\* C9 witness: a file whose 513th byte is zero was classified as text.
C9_Witness ==
    /\ textPc = "returned"
    /\ isText
    /\ Len(fileBytes) > 512
    /\ fileBytes[513] = 0

(***************************************************************************)
(* Properties of ScanDirectory.                                            *)
(***************************************************************************)

\* The notice lines of a report: what stands before the license section.
ReportNotices(rep) ==
    IF Occurrences(rep, "\nLicense Text:\n", 1) = {} THEN NoticesOf(rep)
    ELSE NoticesOf(SubSeq(rep, 1, Least(Occurrences(rep, "\nLicense Text:\n", 1))))

\* C1 (as claimed): no two notice lines of the report ScanDirectory returns
\* have the same NormalizedKey, whichever files they come from.
C1_DistinctKeysPerTree ==
    dirPc = "returned" /\ ~scanErr => DistinctKeys(ReportNotices(report))

\* A regular, readable file of this name stands directly under dir.
ReadableUnderDir(name) ==
    \E i \in 1..Len(tree) :
        tree[i].path = name /\ tree[i].kind = "file" /\ tree[i].readable

\* C10: the license text is the content of the first name, in the order
\* LICENSE, LICENSE.txt, LICENSE.md, license, license.txt, license.md, that
\* is a readable file directly under dir, whatever the later names hold;
\* when none is, there is no license text, the report has no license
\* section, and the scan fails only if the walk does.
C10_FirstReadableLicense ==
    LET names == <<"LICENSE", "LICENSE.txt", "LICENSE.md",
                   "license", "license.txt", "license.md">>
        first == {k \in 1..Len(names) :
                     /\ ReadableUnderDir(names[k])
                     /\ \A j \in 1..(k - 1) : ~ReadableUnderDir(names[j])}
    IN  dirPc # "probe" =>
          /\ \A k \in first :
                \E i \in 1..Len(tree) :
                    tree[i].path = names[k] /\ licenseContent = tree[i].content
          /\ first = {} =>
                /\ licenseContent = ""
                /\ dirPc = "returned" =>
                      /\ scanErr <=> \E i \in 1..Len(tree) : tree[i].walkErr
                      /\ ~scanErr => ~Contains(report, "License Text:")

\* C10 witness: LICENSE cannot be read, LICENSE.txt and license can, and the
\* scan has returned with the text of LICENSE.txt.
C10_Witness ==
    /\ dirPc = "returned" /\ ~scanErr
    /\ Len(tree) = 3
    /\ tree[1].path = "LICENSE" /\ ~tree[1].readable
    /\ tree[2].path = "LICENSE.txt"
    /\ tree[3].path = "license"
    /\ licenseContent = "Apache License\n"
    /\ Contains(report, "Apache License")

(***************************************************************************)
(* Properties of normalizeForComparison on year ranges and on the          *)
(* README's example lines.                                                 *)
(***************************************************************************)

\* A token of four decimal digits.
IsYearToken(t) == Len(t) = 4 /\ AtoiOk(t)

\* The tokens i, i+1, i+2 are a plausible year range: a year, `-` or `to`,
\* and a later year at most 100 above it.
IsYearRange(toks, i) ==
    /\ i + 2 <= Len(toks)
    /\ IsYearToken(toks[i])
    /\ toks[i + 1] \in {"-", "to"}
    /\ IsYearToken(toks[i + 2])
    /\ Atoi(toks[i + 2]) > Atoi(toks[i])
    /\ Atoi(toks[i + 2]) - Atoi(toks[i]) <= 100

\* C16 (as claimed): a plausible year range is dropped as one unit, so the
\* key of a text is the key of the text without the three tokens of the
\* range, and the key of `2019 to 2021 Acme` is `acme`.
C16_YearRangeDroppedAsUnit ==
    Len(normKeys) >= 1 =>
        LET toks == Fields(normIn)
        IN  /\ \A i \in 1..Len(toks) :
                  IsYearRange(toks, i) =>
                      normKeys[1] = normalizeForComparison(
                          Join(SubSeq(toks, 1, i - 1)
                               \o SubSeq(toks, i + 3, Len(toks)), " "))
            /\ normIn = "2019 to 2021 Acme" => normKeys[1] = "acme"

\* C17 (as claimed): both example lines have the key `acme corp`.
C17_ExamplesKeyAcmeCorp ==
    /\ Len(normKeys) >= 1
    /\ normIn \in {"Copyright (c) 2020 Acme Corp.", "copyright 2020 ACME CORP"}
    => normKeys[1] = "acme corp"

\* C17 (amended): both example lines have the same key, and that key is
\* `acme`, `corp` being a stopword like `copyright` and `c`.
C17_ExamplesKeyAcme ==
    /\ Len(normKeys) >= 1
    /\ normIn \in {"Copyright (c) 2020 Acme Corp.", "copyright 2020 ACME CORP"}
    => normKeys[1] = "acme"

\* C17 witness: the second example line has been normalized to `acme`.
C17_Witness ==
    /\ normIn = "copyright 2020 ACME CORP"
    /\ Len(normKeys) >= 1
    /\ normKeys[1] = "acme"

(***************************************************************************)
(* The separator between the lines collected into one notice.              *)
(***************************************************************************)

\* C20 (as claimed): a line collected while the extractor is Collecting is
\* set one space behind the text collected so far, a copyright-signal line
\* as well as any other, and the notice emitted at the end of the file is
\* the cleaned text of the two joined so.
C20_LinesJoinedBySpace ==
    [][/\ LoopStep
       /\ isCollectingCopyright /\ currentCopyright # ""
       /\ ~IsBlank(TrimSpace(line'))
       /\ ~IsSuppressed(TrimSpace(line'))
       => /\ currentCopyright' = currentCopyright \o " " \o TrimSpace(line')
          /\ atEOF' =>
                /\ Len(flushed') = Len(flushed) + 1
                /\ flushed'[Len(flushed')].notice =
                       cleanLine(currentCopyright \o " " \o TrimSpace(line'))]_vars

(***************************************************************************)
(* The layout of the report of ScanDirectory.                              *)
(***************************************************************************)

\* The lines of a sequence, each closed by a newline.
LinesText(ns) == IF ns = <<>> THEN "" ELSE Join(ns, "\n") \o "\n"

\* C11: with license text found, the report is the notice lines (each
\* notice the walk has kept, once, a line each), then the empty line, the
\* `License Text:` header and its rule, then the license content as read,
\* and one newline more only when the content does not end with one;
\* nothing stands behind that.
C11_LicenseSectionLast ==
    dirPc = "returned" /\ ~scanErr /\ licenseContent # "" =>
        LET closing == IF At(licenseContent, Len(licenseContent)) = "\n"
                       THEN "" ELSE "\n"
            section == "\nLicense Text:\n"
                       \o "----------------------------------------\n\n"
                       \o licenseContent \o closing
            n       == Len(report) - Len(section)
        IN  /\ n >= 0
            /\ SubSeq(report, n + 1, Len(report)) = section
            /\ At(report, Len(report)) = "\n"
            /\ LET ns == NoticesOf(SubSeq(report, 1, n))
               IN  /\ SubSeq(report, 1, n) = LinesText(ns)
                   /\ {ns[i] : i \in 1..Len(ns)} = treeSeen
                   /\ Len(ns) = Cardinality(treeSeen)

\* C11 witness: a scan has returned notices and a license that ends with a
\* newline, and the report ends with that one newline.
C11_Witness ==
    /\ dirPc = "returned" /\ ~scanErr
    /\ treeSeen # {}
    /\ licenseContent = "Apache License\n"
    /\ HasSuffix(report, "\n\nApache License\n")

(***************************************************************************)
(* Extraction errors during the walk.                                      *)
(***************************************************************************)

\* The entries of the tree without the files whose extraction failed.
WithoutFailed == SelectSeq(tree, LAMBDA e : e.path \notin failedFiles)

\* C12: a file whose extraction fails leaves the result, the tree-wide seen
\* set and the walk as they were and no error behind; and a scan that
\* returns without an error returns what the walk over the other entries
\* alone would have collected, with the license section behind it.
C12_ExtractErrorSkipsFile ==
    /\ [][failedFiles' # failedFiles =>
             /\ result' = result /\ treeSeen' = treeSeen
             /\ dirPc' = "walk" /\ ~scanErr'
             /\ visited' = visited + 1]_vars
    /\ [](dirPc = "returned" =>
             /\ scanErr <=> \E i \in 1..Len(tree) : tree[i].walkErr
             /\ ~scanErr =>
                   report = WithLicense(
                       WalkFrom(WithoutFailed, {}, 1,
                                [result |-> "", seenCopyrights |-> {},
                                 err |-> FALSE]).result,
                       licenseContent))

\* C12 witness: the extraction of a.go failed, the walk went on to b.go, and
\* the scan returned the notices of b.go alone without an error.
C12_Witness ==
    /\ dirPc = "returned" /\ ~scanErr
    /\ failedFiles = {"a.go"}
    /\ report = "copyright 2020 ACME CORP\n© 2023 Another Company Inc.\n"

(***************************************************************************)
(* Properties of ScanSubDirectories.                                       *)
(***************************************************************************)

\* The entries of rootDir that are directories, in the order listed.
DirChildren == SelectSeq(children, LAMBDA c : c.isDir)

\* A scan or a write has failed in this call.
BatchFailure ==
    \/ writeFailed # {}
    \/ \E k \in 1..Len(children) :
          /\ children[k].isDir
          /\ \E i \in 1..Len(scanned) : scanned[i] = children[k].name
          /\ children[k].scan[{}].err

\* C13: once the scan or the write of a subdirectory has failed, the call
\* has returned an error, and no entry behind the failing one was scanned
\* or written.
C13_FailureAbortsBatch ==
    BatchFailure =>
        /\ subPc = "returned" /\ subErr
        /\ subIdx < Len(children)
        /\ scanned[Len(scanned)] = children[subIdx + 1].name
        /\ \A k \in (subIdx + 2)..Len(children) :
              \A i \in 1..Len(scanned) : scanned[i] # children[k].name
        /\ \A i \in 1..Len(written) : written[i].child <= subIdx

\* C13 witness: a is written, the scan of b fails, and z, a directory too,
\* is left alone.
C13_Witness ==
    /\ subPc = "returned" /\ subErr
    /\ Len(children) = 3 /\ children[3].isDir
    /\ children[2].isDir /\ children[2].scan[{}].err
    /\ scanned = <<children[1].name, children[2].name>>
    /\ Len(written) = 1

\* C14: a call that succeeds on a pattern with the placeholder has written
\* one file for each directory among the entries, in their order, at the
\* pattern with every `{name}` replaced by the directory's name, no two at
\* the same path, and none for another entry; each file holds the prefix
\* (if it can be read) and behind it the report of its own directory.
C14_OneFilePerDirectory ==
    subPc = "returned" /\ ~subErr /\ Contains(outputPattern, "{name}") =>
        /\ Len(written) = Len(DirChildren)
        /\ \A i \in 1..Len(written) :
              /\ children[written[i].child] = DirChildren[i]
              /\ written[i].path =
                     ReplaceAll(outputPattern, "{name}", DirChildren[i].name)
              /\ written[i].content =
                     WithPrefix(prefixFile, DirChildren[i].name,
                                DirChildren[i].scan[written[i].failing].report)
        /\ \A i, j \in 1..Len(written) :
              i # j => written[i].path # written[j].path

\* C14 witness: under root stand a, b and notes.txt, the pattern is
\* out_{name}.txt, and out_a.txt and out_b.txt are written.
C14_Witness ==
    /\ subPc = "returned" /\ ~subErr
    /\ outputPattern = "out_{name}.txt"
    /\ Len(children) = 3 /\ children[3].name = "notes.txt"
    /\ Len(written) = 2
    /\ written[1].path = "out_a.txt" /\ written[2].path = "out_b.txt"

\* C15: what is written for a subdirectory is what ScanDirectory returns on
\* that subdirectory alone, whatever was scanned before it; so a notice
\* that the reports of two subdirectories hold stands in the files of both.
C15_SeenSetPerSubtree ==
    subPc = "returned" =>
        /\ \A i \in 1..Len(written) :
              LET c == children[written[i].child]
              IN  written[i].content =
                      WithPrefix(prefixFile, c.name,
                                 c.scan[written[i].failing].report)
        /\ \A i, j \in 1..Len(written) :
              LET ci == children[written[i].child]
                  cj == children[written[j].child]
                  ni == ReportNotices(ci.scan[written[i].failing].report)
                  nj == ReportNotices(cj.scan[written[j].failing].report)
              IN  \A p \in 1..Len(ni), q \in 1..Len(nj) :
                      ni[p] = nj[q] =>
                          /\ Contains(written[i].content, ni[p] \o "\n")
                          /\ Contains(written[j].content, ni[p] \o "\n")

\* C15 witness: a holds a.go, b holds a.go and d.go, and the files of both
\* begin with the notice of a.go.
C15_Witness ==
    /\ subPc = "returned" /\ ~subErr
    /\ ~prefixFile.readable
    /\ Len(written) = 2
    /\ written[1].content = "Copyright (c) 2020 Acme Corp.\n"
    /\ written[2].content = "Copyright (c) 2020 Acme Corp.\n(C) 2024 Delta Ltd\n"

\* C18 (as claimed): without the placeholder the path is the pattern's base
\* name, `_`, the name and the extension, whatever the base name ends with.
C18_NameSplicedAsIs ==
    ~Contains(outputPattern, "{name}") =>
        \A i \in 1..Len(written) :
            LET ext  == Ext(outputPattern)
                base == SubSeq(outputPattern, 1, Len(outputPattern) - Len(ext))
            IN  written[i].path
                    = base \o "_" \o children[written[i].child].name \o ext

\* C18 (amended): without the placeholder the path is the pattern's base
\* name less one `_` at its end, if it ends with one, then `_`, the name
\* and the extension: out.txt and out_.txt both give out_<name>.txt.
C18_NameSplicedAfterUnderscoreTrim ==
    ~Contains(outputPattern, "{name}") =>
        \A i \in 1..Len(written) :
            LET name == children[written[i].child].name
                ext  == Ext(outputPattern)
                base == SubSeq(outputPattern, 1, Len(outputPattern) - Len(ext))
                stem == IF base # "" /\ At(base, Len(base)) = "_"
                        THEN SubSeq(base, 1, Len(base) - 1) ELSE base
            IN  /\ written[i].path = stem \o "_" \o name \o ext
                /\ outputPattern \in {"out.txt", "out_.txt"} =>
                       written[i].path = "out_" \o name \o ".txt"
                /\ outputPattern = "res.d/out" =>
                       written[i].path = "res.d/out_" \o name

\* C18 witness: the pattern is out_.txt and out_a.txt is written for a.
C18_Witness ==
    /\ outputPattern = "out_.txt"
    /\ Len(written) >= 1
    /\ children[written[1].child].name = "a"
    /\ written[1].path = "out_a.txt"

(***************************************************************************)
(* What becomes of an I/O error.                                           *)
(***************************************************************************)

\* C19 (as claimed): outside the extraction of single files during a walk,
\* a call that fails makes the function it fails in return an error; here,
\* for extractZip: if a call has failed (the directory creation for a
\* directory entry among them), the function has returned an error.
C19_NoErrorSwallowed ==
    ioFailed # {} => zipPc = "returned" /\ zipErr


(***************************************************************************)
(* Properties of the extractor's states and flushes.                       *)
(***************************************************************************)

\* The line holds a copyright word together with an exclusion phrase, and
\* neither is blank nor holds a suppression signal.
ExcludedCopyrightLine(l) ==
    /\ TrimSpace(l) # ""
    /\ ~HoldsSuppressionSignal(l)
    /\ HoldsCopyrightWord(l)
    /\ \E ph \in ExclusionPhrases : Contains(ToLower(l), ph)

\* C26: a non-suppressed line with a copyright word and an exclusion phrase
\* read while Idle starts nothing (state, buffer, output and SeenSet stay as
\* they are); read while Collecting it is written to the buffer behind one
\* space, the extractor stays Collecting, and the notice later made of that
\* buffer is its cleaned text, the line included.
C26_ExcludedLineOnlyContinues ==
    /\ [][LoopStep /\ ExcludedCopyrightLine(line') =>
            IF ~isCollectingCopyright
            THEN /\ ~isCollectingCopyright'
                 /\ UNCHANGED <<currentCopyright, copyright, seenCopyrights, flushed>>
            ELSE /\ isCollectingCopyright'
                 /\ currentCopyright' = currentCopyright \o " " \o TrimSpace(line')
                 /\ (atEOF' =>
                        /\ Len(flushed') = Len(flushed) + 1
                        /\ flushed'[Len(flushed')].buffer = currentCopyright')]_vars
    /\ [](\A i \in 1..Len(flushed) :
              flushed[i].notice = cleanLine(flushed[i].buffer))

\* C26 witness: `the copyright holder` was read behind a notice line and is
\* returned as part of that notice; read first, it would have started nothing.
C26_Witness ==
    /\ pc = "returned" /\ ~extractErr
    /\ nRead = 2
    /\ ExcludedCopyrightLine(line)
    /\ extractOut = "Copyright (c) 2020 Acme Corp. the copyright holder\n"


\* The buffer holds text exactly while the extractor is Collecting.
BufferIffCollecting == (currentCopyright # "") <=> isCollectingCopyright

\* The per-file SeenSet is the set of keys of the notices written out so far,
\* and no step takes a key out of it.
SeenSetIsEmittedKeys ==
    /\ [](seenCopyrights
            = {normalizeForComparison(NoticesOf(copyright)[i]) :
                   i \in 1..Len(NoticesOf(copyright))})
    /\ [][seenCopyrights \subseteq seenCopyrights']_vars

BoundaryLine(l) == TrimSpace(l) = "" \/ HoldsSuppressionSignal(l)

\* The step hands exactly one buffer to the emit-if-unseen block: b.
FlushesOnce(b) ==
    /\ Len(flushed') = Len(flushed) + 1
    /\ SubSeq(flushed', 1, Len(flushed)) = flushed
    /\ flushed'[Len(flushed')].buffer = b

\* C21: a call of extractCopyright returns; what a line put into the buffer
\* stays there, in order, until the first boundary behind it, and is flushed
\* there once as one buffer: a blank or suppressed line flushes the buffer
\* collected before it and empties it, the end of the input flushes the
\* buffer with the last line in it (newline-terminated or not) and the loop
\* ends; no other step flushes. So a call that read its file to the end
\* returns with no text in the buffer that was not flushed, and no text is in
\* two flushed buffers.
C21_FlushedOnceAtBoundary ==
    /\ <>(pc = "returned")
    /\ [][LoopStep =>
            IF BoundaryLine(line')
            THEN /\ currentCopyright' = ""
                 /\ IF currentCopyright # "" THEN FlushesOnce(currentCopyright)
                                             ELSE flushed' = flushed
            ELSE /\ currentCopyright' \in
                       {currentCopyright,
                        currentCopyright \o TrimSpace(line'),
                        currentCopyright \o " " \o TrimSpace(line')}
                 /\ (currentCopyright' = currentCopyright =>
                         ~isCollectingCopyright /\ currentCopyright = "")
                 /\ IF atEOF' /\ currentCopyright' # ""
                    THEN FlushesOnce(currentCopyright')
                    ELSE flushed' = flushed]_vars
    /\ [][~LoopStep => UNCHANGED <<currentCopyright, flushed>>]_vars
    /\ [][pc = "returned" => UNCHANGED vars]_vars
    /\ [](pc = "returned" /\ ~extractErr =>
            /\ atEOF
            /\ \/ currentCopyright = ""
               \/ /\ Len(flushed) > 0
                  /\ flushed[Len(flushed)].buffer = currentCopyright)

\* C21 witness: a file of two lines, the second without a newline behind it,
\* was read to its end, and the buffer made of both was flushed once there.
C21_Witness ==
    /\ pc = "returned" /\ ~extractErr
    /\ nRead = 2
    /\ line = "// Example Inc. All rights reserved."
    /\ Len(flushed) = 1
    /\ flushed[1].buffer
         = "// Copyright 2019-2021 // Example Inc. All rights reserved."


(***************************************************************************)
(* Properties of the license probe and of the order of the report.         *)
(***************************************************************************)

\* The report has a license section.
HasLicenseSection(rep) ==
    Contains(rep, "\nLicense Text:\n----------------------------------------\n\n")

\* The content of the first candidate name that is a readable file directly
\* under dir, as a set: empty when there is none.
FirstReadableCandidate ==
    LET names == <<"LICENSE", "LICENSE.txt", "LICENSE.md",
                   "license", "license.txt", "license.md">>
    IN  {tree[i].content : i \in
            {i \in 1..Len(tree) :
                \E k \in 1..Len(names) :
                    /\ tree[i].path = names[k]
                    /\ ReadableUnderDir(names[k])
                    /\ \A j \in 1..(k - 1) : ~ReadableUnderDir(names[j])}}

\* C28: the probe ends at the first candidate that can be read, empty or
\* not: a report has a license section exactly when that candidate exists
\* and is not empty, so an empty LICENSE leaves the report without a section
\* whatever LICENSE.txt holds.
C28_EmptyFirstCandidateNoSection ==
    /\ dirPc # "probe" => \A c \in FirstReadableCandidate : licenseContent = c
    /\ dirPc = "returned" /\ ~scanErr =>
          /\ HasLicenseSection(report) <=> (FirstReadableCandidate \ {""} # {})
          /\ "" \in FirstReadableCandidate => ~Contains(report, "License Text:")

\* C28 witness: an empty LICENSE and a LICENSE.txt with text stand under dir,
\* and the scan has returned a report without a license section.
C28_Witness ==
    /\ dirPc = "returned" /\ ~scanErr
    /\ \E i, j \in 1..Len(tree) :
          /\ tree[i].path = "LICENSE" /\ tree[i].readable /\ tree[i].content = ""
          /\ tree[j].path = "LICENSE.txt" /\ tree[j].readable
          /\ tree[j].content = "Apache License\n"
    /\ ~HasLicenseSection(report)
    /\ report # ""


RECURSIVE ProducedUpTo(_)
\* The notices the files visited so far have produced, in the order of the
\* walk and of each file: those of entries 1..k that are text files whose
\* extraction did not fail.
ProducedUpTo(k) ==
    IF k = 0 THEN <<>>
    ELSE ProducedUpTo(k - 1)
         \o (IF /\ ~tree[k].walkErr
                /\ tree[k].kind = "file" /\ tree[k].readable
                /\ TextOf[tree[k].content]
                /\ tree[k].path \notin failedFiles
             THEN NoticesOf(ExtractedOf[tree[k].content])
             ELSE <<>>)

RECURSIVE FirstOccurrences(_, _)
\* The elements of a sequence from the i-th on that no earlier element equals.
FirstOccurrences(seq, i) ==
    IF i > Len(seq) THEN <<>>
    ELSE (IF \E j \in 1..(i - 1) : seq[j] = seq[i] THEN <<>> ELSE <<seq[i]>>)
         \o FirstOccurrences(seq, i + 1)

\* C23: at every moment of the walk the result holds the notices produced so
\* far in the order of their first occurrence, each once (a notice being the
\* line as written to the report); a visit only writes behind what is there;
\* and the report returned without an error holds exactly these lines before
\* its license section.
C23_FirstSeenOrderOverWalk ==
    /\ [](dirPc = "walk" =>
             NoticesOf(result) = FirstOccurrences(ProducedUpTo(visited), 1))
    /\ [](dirPc = "returned" /\ ~scanErr =>
             ReportNotices(report) = FirstOccurrences(ProducedUpTo(Len(tree)), 1))
    /\ [][dirPc = "walk" /\ dirPc' = "walk" =>
             /\ Len(result') >= Len(result)
             /\ SubSeq(result', 1, Len(result)) = result]_vars

\* C23 witness: a.go, b.go and c.go were visited; c.go repeats the notice of
\* a.go behind the two of b.go, and the report holds the three lines in the
\* order they were first seen.
C23_Witness ==
    /\ dirPc = "returned" /\ ~scanErr
    /\ Len(tree) = 3
    /\ tree[1].path = "a.go" /\ tree[2].path = "b.go" /\ tree[3].path = "c.go"
    /\ failedFiles = {}
    /\ Len(ProducedUpTo(3)) = 4
    /\ ProducedUpTo(3)[4] = ProducedUpTo(3)[1]
    /\ ReportNotices(report) = SubSeq(ProducedUpTo(3), 1, 3)


(***************************************************************************)
(* Properties of the order of ScanSubDirectories.                          *)
(***************************************************************************)

\* The indices of the directories among the first k entries, in their order.
DirIndicesUpTo(k) ==
    SelectSeq([i \in 1..k |-> i], LAMBDA i : children[i].isDir)

\* C29: the subdirectories are scanned one after another in the order of the
\* listing, and when one is scanned the file of every one scanned before it
\* is written; a written file is never taken back; so a call that aborts at
\* an entry returns an error with the files of all directories before that
\* entry written.
C29_WrittenBeforeNextScan ==
    /\ [](/\ Len(scanned) = Len(written) + (IF subErr /\ subPc = "returned"
                                                      /\ scanned # <<>>
                                                      /\ subIdx < Len(children)
                                            THEN 1 ELSE 0)
          /\ \A i \in 1..Len(scanned) :
                scanned[i] = children[DirIndicesUpTo(Len(children))[i]].name
          /\ \A i \in 1..Len(written) :
                written[i].child = DirIndicesUpTo(Len(children))[i])
    /\ [][Len(scanned') > Len(scanned) =>
             /\ Len(scanned') = Len(scanned) + 1
             /\ Len(written) = Len(scanned)
             /\ [i \in 1..Len(written) |-> written[i].child]
                  = DirIndicesUpTo(subIdx)]_vars
    /\ [][/\ Len(written') >= Len(written)
          /\ SubSeq(written', 1, Len(written)) = written]_vars
    /\ [](subPc = "returned" /\ subErr /\ scanned # <<>> =>
             [i \in 1..Len(written) |-> written[i].child] = DirIndicesUpTo(subIdx))

\* C29 witness: a and b were scanned and written, the write for z failed,
\* and the call has returned an error with the two files in place.
C29_Witness ==
    /\ subPc = "returned" /\ subErr
    /\ writeFailed # {}
    /\ Len(scanned) = 3
    /\ Len(written) = 2
    /\ written[1].child = 1 /\ written[2].child = 2


(***************************************************************************)
(* Properties of the paths extractZip writes to.                           *)
(***************************************************************************)

\* The path is destDir or lies under it.
InsideDestDir(path) ==
    \/ path = destDir
    \/ /\ Len(path) > Len(destDir)
       /\ SubSeq(path, 1, Len(destDir) + 1) = destDir \o "/"

\* C30 (as claimed): every file and directory extractZip has created lies
\* inside destDir, whatever the names of the archive's entries.
C30_ExtractedInsideDestDir ==
    \A path \in extracted : InsideDestDir(path)


(***************************************************************************)
(* Properties of cleanLine.                                                *)
(***************************************************************************)

\* C24: cleanLine returns, and what it returns holds none of the markers
\* `//`, `/*`, `*/`, `#`, `*`, `+`, `-`, `<!--`, `-->`, neither starts nor
\* ends with white space, holds no white space but single spaces and so no
\* newline, and is a fixpoint: cleanLine of it is the same string. A line
\* that holds a copyright word is cleaned to a string that is not empty.
C24_CleanLineFixpoint ==
    \A i \in 1..Len(cleanOut) :
        LET s == cleanOut[i]
            markers == {"//", "/*", "*/", "#", "*", "+", "-", "<!--", "-->"}
        IN  /\ \A m \in markers : ~Contains(s, m)
            /\ \A k \in 1..Len(s) :
                  /\ At(s, k) \in WhiteSpace => At(s, k) = " "
                  /\ At(s, k) = " " => k > 1 /\ k < Len(s) /\ At(s, k + 1) # " "
            /\ i = 2 => cleanOut[2] = cleanOut[1]
            /\ HoldsCopyrightWord(cleanIn) => s # ""

\* C24 witness: a line between the two markers of an HTML comment was
\* cleaned twice; the dashes went as `-`, and what is left of the markers
\* stays.
C24_Witness ==
    /\ cleanIn = "-->(c) 2020 Acme<!--"
    /\ cleanOut = <<">(c) 2020 Acme<!", ">(c) 2020 Acme<!">>


(***************************************************************************)
(* Properties of the file handles.                                         *)
(***************************************************************************)

\* C25: ScanDirectory and ScanSubDirectories hold at most one file open at
\* any moment, and while extractCopyright has a file open it is the only
\* handle, the one isTextFile had on that file being closed; extractZip holds
\* its reader and at most the file written and the entry read; a step opens
\* one handle or closes handles, and a handle that goes is closed; and when
\* any of the three has returned, with an error or without, no handle is open.
C25_HandlesClosedOnEveryPath ==
    /\ [](hFn \in {"ScanDirectory", "ScanSubDirectories"} =>
             Cardinality(handles) <= 1)
    /\ [](hPc = "extract" =>
             handles = {[path |-> HEntry.path, by |-> "extractCopyright"]})
    /\ [](hFn = "extractZip" => Cardinality(handles) <= 3)
    /\ [](hPc = "returned" => handles = {})
    /\ [][handles' # handles =>
             \/ /\ \E h \in handles' \ handles : handles' = handles \cup {h}
                /\ closed' = closed
             \/ /\ handles' \subseteq handles
                /\ Len(closed') = Len(closed) + Cardinality(handles \ handles')
                /\ SubSeq(closed', 1, Len(closed)) = closed
                /\ {closed'[i] : i \in (Len(closed) + 1)..Len(closed')}
                     = handles \ handles']_vars

\* C25 witness: ScanDirectory has returned the error of the walk at the
\* second entry; before that a.go was opened and closed by isTextFile and
\* then by extractCopyright, and nothing is open.
C25_Witness ==
    /\ hFn = "ScanDirectory"
    /\ hPc = "returned" /\ hErr
    /\ closed = <<[path |-> "a.go", by |-> "isTextFile"],
                  [path |-> "a.go", by |-> "extractCopyright"]>>
    /\ handles = {}


(***************************************************************************)
(* Properties of AnalyzeZipFile and AnalyzeCopyright.                      *)
(***************************************************************************)

\* The steps of a call in their order, the deferred removal left out.
StepsOf(fn) == <<"MkdirTemp", "extractZip", "ScanDirectory", ServiceCall(fn)>>

\* The steps the call has run, without the removal of the staging directory.
StepsRun == SelectSeq(anCalls, LAMBDA c : c # "RemoveAll")

\* The call is over: it has returned or panicked.
AnOver == anPc \in {"returned", "panicked"}

\* C27: the steps run are at every moment a front part of MkdirTemp,
\* extractZip, ScanDirectory, service call, so each runs at most once and in
\* that order; ScanDirectory is called only when extractZip has returned
\* nil, the service only behind a scan that returned no error; a step that
\* returns an error is the last one run and the call returns an error and
\* no text; and the staging directory, once made, is there while the call
\* runs and removed, by one os.RemoveAll behind all other steps, when it is
\* over, however it ends.
C27_StepsInOrderAndStageRemoved ==
    /\ Len(StepsRun) <= 4
    /\ StepsRun = SubSeq(StepsOf(anFn), 1, Len(StepsRun))
    /\ Len(StepsRun) >= 3 => zipPc = "returned" /\ ~zipErr
    /\ zipErr => AnOver \/ anPc = "extracting"
    /\ anErr = "failed to create temp directory" => Len(StepsRun) = 1
    /\ anErr = "failed to extract zip file" => Len(StepsRun) = 2 /\ zipErr
    /\ anErr = "failed to scan directory" => Len(StepsRun) = 3
    /\ anErr # "" => anPc = "returned" /\ anOut = ""
    /\ anPc = "returned" /\ anErr = "" => Len(StepsRun) = 4
    /\ AnOver => ~anStaged
    /\ AnOver /\ Len(StepsRun) > 1 =>
          /\ anCalls[Len(anCalls)] = "RemoveAll"
          /\ Len(anCalls) = Len(StepsRun) + 1
    /\ ~AnOver =>
          /\ anCalls = StepsRun
          /\ anStaged <=> anPc # "stage"

\* C27 witness: the archive was opened and extractZip failed on its first
\* file; the call has returned that error without a scan or a call of the
\* service, and the staging directory is gone.
C27_Witness ==
    /\ anPc = "returned"
    /\ anErr = "failed to extract zip file"
    /\ zipIdx = 0 /\ ioFailed # {} /\ extracted # {}
    /\ anCalls = <<"MkdirTemp", "extractZip", "RemoveAll">>
    /\ ~anStaged

=============================================================================
